---------------------------- MODULE Spec2Model ----------------------------
(***************************************************************************)
(* The delegated OAuth 2.0 authorization broker of mcp-limitless           *)
(* (src/github-oauth-index.ts): the /authorize, /github/callback and       *)
(* /token handlers over the OAUTH_KV key-value store, each handler an      *)
(* independent invocation whose store operations interleave with those of  *)
(* the other invocations.                                                  *)
(***************************************************************************)
EXTENDS Integers, Sequences, FiniteSets, Bags, TLC

(***************************************************************************)
(* Text.  A string the handlers inspect character by character (a PKCE     *)
(* verifier or challenge) is a sequence of one-character strings; the      *)
(* empty sequence stands both for "" and for null, which every test of the *)
(* handlers (!x, if (x)) treats alike.                                     *)
(***************************************************************************)
Upper ==
  << "A", "B", "C", "D", "E", "F", "G", "H", "I", "J", "K", "L", "M",
     "N", "O", "P", "Q", "R", "S", "T", "U", "V", "W", "X", "Y", "Z" >>

Lower ==
  << "a", "b", "c", "d", "e", "f", "g", "h", "i", "j", "k", "l", "m",
     "n", "o", "p", "q", "r", "s", "t", "u", "v", "w", "x", "y", "z" >>

Digits ==
  << "0", "1", "2", "3", "4", "5", "6", "7", "8", "9" >>

\* The alphabet of btoa (standard base64), index 0 first.
B64Alphabet ==
  Upper \o Lower \o Digits \o << "+", "/" >>

IndexOf(s, c) ==
  CHOOSE i \in 1..Len(s) : s[i] = c

InSeq(s, c) ==
  \E i \in 1..Len(s) : s[i] = c

\* The code unit of an ASCII character.
CharCode(c) ==
  IF InSeq(Upper, c) THEN 64 + IndexOf(Upper, c)
  ELSE IF InSeq(Lower, c) THEN 96 + IndexOf(Lower, c)
  ELSE IF InSeq(Digits, c) THEN 47 + IndexOf(Digits, c)
  ELSE IF c = "-" THEN 45
  ELSE IF c = "." THEN 46
  ELSE IF c = "_" THEN 95
  ELSE IF c = "~" THEN 126
  ELSE IF c = "+" THEN 43
  ELSE IF c = "/" THEN 47
  ELSE 61

\* new TextEncoder().encode(s): the UTF-8 bytes of an ASCII string.
TextEncode(s) ==
  [i \in 1..Len(s) |-> CharCode(s[i])]

(***************************************************************************)
(* 32-bit words are pairs <<hi, lo>> of 16-bit halves, so that no          *)
(* intermediate value leaves the range of the checker's integers.          *)
(***************************************************************************)
W16 ==
  65536

RECURSIVE Pow2(_)
Pow2(n) ==
  IF n = 0 THEN 1 ELSE 2 * Pow2(n - 1)

RECURSIVE Xor16(_, _, _)
Xor16(a, b, n) ==
  IF n = 0 THEN 0
  ELSE (((a % 2) + (b % 2)) % 2) + 2 * Xor16(a \div 2, b \div 2, n - 1)

RECURSIVE And16(_, _, _)
And16(a, b, n) ==
  IF n = 0 THEN 0
  ELSE ((a % 2) * (b % 2)) + 2 * And16(a \div 2, b \div 2, n - 1)

WXor(a, b) ==
  << Xor16(a[1], b[1], 16), Xor16(a[2], b[2], 16) >>

WAnd(a, b) ==
  << And16(a[1], b[1], 16), And16(a[2], b[2], 16) >>

WNot(a) ==
  << (W16 - 1) - a[1], (W16 - 1) - a[2] >>

\* Addition modulo 2^32.
WAdd(a, b) ==
  LET lo == a[2] + b[2]
      hi == a[1] + b[1] + (lo \div W16)
  IN  << hi % W16, lo % W16 >>

\* Rotate right by n bits, 0 < n < 32.
Rotr(a, n) ==
  LET s == IF n >= 16 THEN << a[2], a[1] >> ELSE a
      k == n % 16
      p == Pow2(k)
      q == Pow2(16 - k)
  IN  IF k = 0 THEN s
      ELSE << (s[1] \div p) + (s[2] % p) * q, (s[2] \div p) + (s[1] % p) * q >>

\* Shift right by n bits, 0 < n < 32.
Shr(a, n) ==
  LET p == Pow2(n % 16)
      q == Pow2(16 - (n % 16))
  IN  IF n >= 16 THEN << 0, a[1] \div p >>
      ELSE << a[1] \div p, (a[2] \div p) + (a[1] % p) * q >>

(***************************************************************************)
(* SHA-256 (FIPS 180-4), as crypto.subtle.digest('SHA-256', data) computes *)
(* it.                                                                     *)
(***************************************************************************)
SHA256_K ==
  <<
  <<17034, 12184>>, <<28983, 17553>>, <<46528, 64463>>, <<59829, 56229>>,
  <<14678, 49755>>, <<23025, 4593>>, <<37439, 33444>>, <<43804, 24277>>,
  <<55303, 43672>>, <<4739, 23297>>, <<9265, 34238>>, <<21772, 32195>>,
  <<29374, 23924>>, <<32990, 45566>>, <<39900, 1703>>, <<49563, 61812>>,
  <<58523, 27073>>, <<61374, 18310>>, <<4033, 40390>>, <<9228, 41420>>,
  <<11753, 11375>>, <<19060, 33962>>, <<23728, 43484>>, <<30457, 35034>>,
  <<38974, 20818>>, <<43057, 50797>>, <<45059, 10184>>, <<48985, 32711>>,
  <<50912, 3059>>, <<54695, 37191>>, <<1738, 25425>>, <<5161, 10599>>,
  <<10167, 2693>>, <<11803, 8504>>, <<19756, 28156>>, <<21304, 3347>>,
  <<25866, 29524>>, <<30314, 2747>>, <<33218, 51502>>, <<37490, 11397>>,
  <<41663, 59553>>, <<43034, 26187>>, <<49739, 35696>>, <<51052, 20899>>,
  <<53650, 59417>>, <<54937, 1572>>, <<62478, 13701>>, <<4202, 41072>>,
  <<6564, 49430>>, <<7735, 27656>>, <<10056, 30540>>, <<13488, 48309>>,
  <<14620, 3251>>, <<20184, 43594>>, <<23452, 51791>>, <<26670, 28659>>,
  <<29839, 33518>>, <<30885, 25455>>, <<33992, 30740>>, <<36039, 520>>,
  <<37054, 65530>>, <<42064, 27883>>, <<48889, 41975>>, <<50801, 30962>>
  >>

SHA256_H0 ==
  <<
  <<27145, 58983>>, <<47975, 44677>>, <<15470, 62322>>, <<42319, 62778>>,
  <<20750, 21119>>, <<39685, 26764>>, <<8067, 55723>>, <<23520, 52505>>
  >>

Ch(x, y, z) ==
  WXor(WAnd(x, y), WAnd(WNot(x), z))

Maj(x, y, z) ==
  WXor(WAnd(x, y), WXor(WAnd(x, z), WAnd(y, z)))

BigSigma0(x) ==
  WXor(Rotr(x, 2), WXor(Rotr(x, 13), Rotr(x, 22)))

BigSigma1(x) ==
  WXor(Rotr(x, 6), WXor(Rotr(x, 11), Rotr(x, 25)))

SmallSigma0(x) ==
  WXor(Rotr(x, 7), WXor(Rotr(x, 18), Shr(x, 3)))

SmallSigma1(x) ==
  WXor(Rotr(x, 17), WXor(Rotr(x, 19), Shr(x, 10)))

Zeros(n) ==
  [i \in 1..n |-> 0]

\* The message followed by 0x80, zero bytes up to 56 modulo 64, and the
\* message length in bits as a 64-bit big-endian integer.
Sha256Pad(bytes) ==
  LET len  == Len(bytes)
      z    == (119 - len) % 64
      bits == len * 8
  IN  bytes \o << 128 >> \o Zeros(z) \o Zeros(4)
        \o << (bits \div 16777216) % 256, (bits \div 65536) % 256,
              (bits \div 256) % 256, bits % 256 >>

\* The sixteen big-endian words of the 64-byte block that starts at byte off + 1.
BlockWords(padded, off) ==
  [i \in 1..16 |->
     << padded[off + 4 * i - 3] * 256 + padded[off + 4 * i - 2],
        padded[off + 4 * i - 1] * 256 + padded[off + 4 * i] >>]

RECURSIVE Schedule(_)
\* The message schedule W[1..64], grown from the sixteen words of the block.
Schedule(w) ==
  IF Len(w) = 64 THEN w
  ELSE LET t == Len(w) + 1
       IN  Schedule(Append(w,
             WAdd(WAdd(SmallSigma1(w[t - 2]), w[t - 7]),
                  WAdd(SmallSigma0(w[t - 15]), w[t - 16]))))

RECURSIVE Rounds(_, _)
\* The 64 rounds: vs is the sequence of the working variables
\* <<a, b, c, d, e, f, g, h>> before round 1 and after each round so far.
Rounds(vs, w) ==
  IF Len(vs) = 65 THEN vs[65]
  ELSE LET t  == Len(vs)
           v  == vs[t]
           t1 == WAdd(WAdd(WAdd(v[8], BigSigma1(v[5])), Ch(v[5], v[6], v[7])),
                      WAdd(SHA256_K[t], w[t]))
           t2 == WAdd(BigSigma0(v[1]), Maj(v[1], v[2], v[3]))
       IN  Rounds(Append(vs, << WAdd(t1, t2), v[1], v[2], v[3],
                                WAdd(v[4], t1), v[5], v[6], v[7] >>), w)

Compress(h, words) ==
  LET v == Rounds(<< h >>, Schedule(words))
  IN  [i \in 1..8 |-> WAdd(h[i], v[i])]

RECURSIVE Blocks(_, _, _)
Blocks(h, padded, off) ==
  IF off >= Len(padded) THEN h
  ELSE Blocks(Compress(h, BlockWords(padded, off)), padded, off + 64)

\* crypto.subtle.digest('SHA-256', data): the 32 bytes of the digest.
Sha256Digest(bytes) ==
  LET h == Blocks(SHA256_H0, Sha256Pad(bytes), 0)
  IN  [i \in 1..32 |->
         LET wd   == h[((i - 1) \div 4) + 1]
             half == IF ((i - 1) % 4) < 2 THEN wd[1] ELSE wd[2]
         IN  IF (i - 1) % 2 = 0 THEN half \div 256 ELSE half % 256]

(***************************************************************************)
(* btoa and the three global replacements that turn its output into        *)
(* base64url without padding.                                              *)
(***************************************************************************)
RECURSIVE Btoa(_)
\* btoa(String.fromCharCode(...bytes)): standard base64 with = padding.
Btoa(bytes) ==
  LET n == Len(bytes)
  IN  IF n = 0 THEN << >>
      ELSE LET b1 == bytes[1]
               b2 == IF n >= 2 THEN bytes[2] ELSE 0
               b3 == IF n >= 3 THEN bytes[3] ELSE 0
               c1 == B64Alphabet[(b1 \div 4) + 1]
               c2 == B64Alphabet[((b1 % 4) * 16 + (b2 \div 16)) + 1]
               c3 == IF n >= 2 THEN B64Alphabet[((b2 % 16) * 4 + (b3 \div 64)) + 1]
                     ELSE "="
               c4 == IF n >= 3 THEN B64Alphabet[(b3 % 64) + 1] ELSE "="
           IN  << c1, c2, c3, c4 >>
                 \o (IF n > 3 THEN Btoa(SubSeq(bytes, 4, n)) ELSE << >>)

RECURSIVE ReplaceAll(_, _, _)
\* s.replace(/from/g, to) for a one-character pattern; to is a sequence of
\* characters (empty to delete).
ReplaceAll(s, from, to) ==
  IF s = << >> THEN << >>
  ELSE (IF Head(s) = from THEN to ELSE << Head(s) >>)
         \o ReplaceAll(Tail(s), from, to)

\* The same without the removal of the padding.
ComputeChallengePadded(codeVerifier) ==
  ReplaceAll(
    ReplaceAll(Btoa(Sha256Digest(TextEncode(codeVerifier))), "+", << "-" >>),
    "/", << "_" >>)

\* The value compared with the stored challenge: lines 242-248 of the
\* /token handler, applied to the submitted code_verifier.
ComputeChallenge(codeVerifier) ==
  ReplaceAll(
    ReplaceAll(
      ReplaceAll(Btoa(Sha256Digest(TextEncode(codeVerifier))), "+", << "-" >>),
      "/", << "_" >>),
    "=", << >>)


(***************************************************************************)
(* Bounds of the model.                                                    *)
(***************************************************************************)
\* Requests of each endpoint that get as far as changing the store (requests
\* the handler rejects at once are not limited).
MaxAuthorize ==
  1

MaxCallback ==
  2

MaxToken ==
  2

\* Handler invocations that can be between two store operations at once.
MaxInFlight ==
  2

(***************************************************************************)
(* Values.                                                                 *)
(***************************************************************************)
\* JavaScript null, and the result of a store get on an absent key.
Null ==
  [null |-> TRUE]

\* An identifier parameter that is absent or empty.
NoId ==
  0

\* The n-th value returned by crypto.randomUUID() is n; BogusId is a
\* well-formed identifier that crypto.randomUUID() never returned.
BogusId ==
  99

\* The code_verifier of RFC 7636, appendix B.
V1 ==
  << "d", "B", "j", "f", "t", "J", "e", "Z", "4", "C", "V", "P", "-", "m",
     "B", "9", "2", "K", "2", "7", "u", "h", "b", "U", "J", "U", "1", "p",
     "1", "r", "_", "w", "W", "1", "g", "F", "W", "F", "O", "E", "j", "X",
     "k" >>

\* The code_challenge that RFC 7636, appendix B, gives for V1 with S256.
CH1 ==
  << "E", "9", "M", "e", "l", "h", "o", "a", "2", "O", "w", "v", "F", "r",
     "E", "M", "T", "J", "g", "u", "C", "H", "a", "o", "e", "K", "1", "t",
     "8", "U", "R", "W", "b", "u", "G", "J", "S", "s", "t", "w", "-", "c",
     "M" >>

\* Another verifier.
V2 ==
  << "a", "b", "c" >>

CodeVerifiers ==
  { V1, V2 }

\* The challenge computed by the /token handler for each verifier a request
\* can submit, computed once.
ChallengeOf ==
  [v \in CodeVerifiers |-> ComputeChallenge(v)]

\* Provider codes: GH1 was issued by GitHub to the user who signed in,
\* FORGED was made up by the caller.
GH1 ==
  << "g", "h", "c", "o", "d", "e", "0", "0", "1" >>

FORGED ==
  << "f", "o", "r", "g", "e", "d" >>

ProviderCodes ==
  { GH1, FORGED }

\* The provider codes GitHub issued.
IssuedByGitHub ==
  { GH1 }

GITHUB_AUTH_URL ==
  "https://github.com/login/oauth/authorize"

\* The number of requests to /sse.
MaxSse ==
  2

\* The request ceiling of the rate limiter in the deployments of the gate.
RateLimitCeiling ==
  1

\* The number of requests to /sse and the request ceiling where requests of
\* one address race in the rate limiter.
MaxRace ==
  5

RaceCeiling ==
  2

(***************************************************************************)
(* The environment of the worker (Env): whether env.OAUTH_PROVIDER offers  *)
(* parseAuthRequest and completeAuthorization, whether GITHUB_CLIENT_ID is *)
(* set, the value of ENABLE_IP_ALLOWLIST (empty when it is not set) and   *)
(* the request ceiling configured for the rate limiter (RATE_LIMIT).       *)
(* The optional binding RATE_LIMIT_KV is the variable of that name.        *)
(***************************************************************************)
Envs ==
  { [OAUTH_PROVIDER |-> FALSE, GITHUB_CLIENT_ID |-> "gh-client", ENABLE_IP_ALLOWLIST |-> "", RATE_LIMIT |-> RateLimitCeiling],
    [OAUTH_PROVIDER |-> TRUE,  GITHUB_CLIENT_ID |-> "gh-client", ENABLE_IP_ALLOWLIST |-> "", RATE_LIMIT |-> RateLimitCeiling],
    [OAUTH_PROVIDER |-> TRUE,  GITHUB_CLIENT_ID |-> "",          ENABLE_IP_ALLOWLIST |-> "", RATE_LIMIT |-> RateLimitCeiling] }

\* The deployments of the fallback flow with every setting of the allow-list
\* flag.
GateEnvs ==
  { [ OAUTH_PROVIDER      |-> FALSE,
      GITHUB_CLIENT_ID    |-> "gh-client",
      ENABLE_IP_ALLOWLIST |-> flag,
      RATE_LIMIT          |-> RateLimitCeiling ] : flag \in { "", "false", "true" } }

VARIABLES
  env,        \* the bindings of this deployment
  OAUTH_KV,   \* the key-value store: a function from the keys present to their values
  uuids,      \* how many values crypto.randomUUID() has returned
  inflight,   \* the bag of the invocations that are between two store operations
  done,       \* the invocations that responded after reaching the store
  RATE_LIMIT_KV  \* the store of the rate limiter, or Null when it is not bound

vars ==
  << env, OAUTH_KV, uuids, inflight, done, RATE_LIMIT_KV >>

(***************************************************************************)
(* The store: KVNamespace get, put and delete.  Keys are <<prefix, id>>.   *)
(***************************************************************************)
KVGet(kv, key) ==
  IF key \in DOMAIN kv THEN kv[key] ELSE Null

KVPut(kv, key, value) ==
  [k \in (DOMAIN kv) \cup { key } |-> IF k = key THEN value ELSE kv[k]]

\* A delete that leaves the key in place.
KVDeleteLeavesKey(kv, key) ==
  kv

KVDelete(kv, key) ==
  [k \in (DOMAIN kv) \ { key } |-> kv[k]]

(***************************************************************************)
(* Responses and invocations.                                              *)
(***************************************************************************)
TextResponse(status, text) ==
  [status |-> status, text |-> text, json |-> Null, location |-> Null]

JsonResponse(status, json) ==
  [status |-> status, text |-> "", json |-> json, location |-> Null]

Redirect(location) ==
  [status |-> 302, text |-> "", json |-> Null, location |-> location]

\* A response whose body is a template literal: its text and the values
\* that are interpolated in it.
TemplateResponse(status, text, values) ==
  [status |-> status, text |-> text, json |-> Null, location |-> Null, values |-> values]

\* The exception a failing operation throws (a store operation, the parsing
\* of a request, a call of the provider's helper).
ThrownError ==
  [ message |-> "KV PUT failed: 503 Service Unavailable" ]

\* A finished invocation: its endpoint, its parameters, what it read from the
\* store (Null if nothing) and its response.
Finished(ep, params, data, resp) ==
  [ep |-> ep, params |-> params, data |-> data, resp |-> resp]

\* An invocation waiting for its next store operation.
Waiting(ep, params, data, pc) ==
  [ep |-> ep, params |-> params, data |-> data, pc |-> pc]

\* The invocations in flight, each once.
InFlight ==
  BagToSet(inflight)

\* Invocation r starts to wait, goes on to wait as r2, or responds.
Start(r) ==
  inflight (+) SetToBag({ r })

Continue(r, r2) ==
  (inflight (-) SetToBag({ r })) (+) SetToBag({ r2 })

Finish(r) ==
  inflight (-) SetToBag({ r })

\* The invocations of an endpoint that wait at pc.
At(ep, pc) ==
  { r \in InFlight : r.ep = ep /\ r.pc = pc }

\* The number of invocations of an endpoint that reached the store.
Admitted(ep) ==
  BagCardinality([r \in { x \in InFlight : x.ep = ep } |-> inflight[r]])
    + Cardinality({ d \in done : d.ep = ep })

(***************************************************************************)
(* The requests a client can send.  Identifiers are those a client learned *)
(* from the Location of an earlier redirect, or made up.                   *)
(***************************************************************************)
AuthorizeBase ==
  [ response_type         |-> "code",
    client_id             |-> "abc",
    redirect_uri          |-> "https://client.example/cb",
    code_challenge        |-> CH1,
    code_challenge_method |-> "S256",
    state                 |-> "xyz",
    scope                 |-> "mcp" ]

\* The base request, the base request with another use of PKCE, and the base
\* request with one parameter absent.
AuthorizeInputs ==
  { AuthorizeBase,
    [AuthorizeBase EXCEPT !.code_challenge_method = "plain"],
    [AuthorizeBase EXCEPT !.code_challenge = V1, !.code_challenge_method = "plain"],
    [AuthorizeBase EXCEPT !.code_challenge = << >>, !.code_challenge_method = ""],
    [AuthorizeBase EXCEPT !.response_type = ""],
    [AuthorizeBase EXCEPT !.client_id = ""],
    [AuthorizeBase EXCEPT !.redirect_uri = ""],
    [AuthorizeBase EXCEPT !.state = ""] }

\* The provider-facing state of every redirect to GitHub sent so far.
SessionIds ==
  { d.resp.location.state :
      d \in { x \in done : x.ep = "authorize" /\ x.resp.status = 302 } }

\* The code of every redirect back to a client sent so far.
AuthCodes ==
  { d.resp.location.code :
      d \in { x \in done : /\ x.ep = "callback"
                           /\ x.resp.status = 302
                           /\ "code" \in DOMAIN x.resp.location } }

CallbackInputs ==
  [ code  : ProviderCodes \cup { << >> },
    state : SessionIds \cup { NoId, BogusId } ]

\* grant_types_supported of the discovery document.
GrantTypesSupported ==
  { "authorization_code", "refresh_token" }

\* An empty grant_type stands for an absent one.
TokenInputs ==
  [ grant_type    : GrantTypesSupported \cup { "" },
    code          : AuthCodes \cup { NoId, BogusId },
    code_verifier : CodeVerifiers \cup { << >> },
    client_id     : { "abc", "evil", "" } ]

(***************************************************************************)
(* GET /authorize.  The handler performs at most one store operation, the  *)
(* put of the session, and responds after it.                              *)
(***************************************************************************)
\* A redirect to GitHub that does not carry the identifier of the session.
GithubAuthUrlFixedState(githubState) ==
  [ url          |-> GITHUB_AUTH_URL,
    client_id    |-> env.GITHUB_CLIENT_ID,
    redirect_uri |-> "/github/callback",
    scope        |-> "user:email",
    state        |-> NoId ]

\* The Location of the redirect to GitHub.
GithubAuthUrl(githubState) ==
  [ url          |-> GITHUB_AUTH_URL,
    client_id    |-> env.GITHUB_CLIENT_ID,
    redirect_uri |-> "/github/callback",
    scope        |-> "user:email",
    state        |-> githubState ]

\* A fallback that refuses a client id for which the store has no
\* registration.
AuthorizeFallbackRejectionUnregistered(p) ==
  IF p.response_type = "" \/ p.client_id = "" \/ p.redirect_uri = ""
  THEN TextResponse(400, "Missing required OAuth parameters")
  ELSE IF \A key \in DOMAIN OAUTH_KV : key[1] = "client" => ToString(key[2]) # p.client_id
  THEN TextResponse(400, "Unknown client")
  ELSE Null

\* The fallback of /authorize (env.OAUTH_PROVIDER offers no parseAuthRequest):
\* the response that ends the request before the store is written, or Null.
AuthorizeFallbackRejection(p) ==
  IF p.response_type = "" \/ p.client_id = "" \/ p.redirect_uri = ""
  THEN TextResponse(400, "Missing required OAuth parameters")
  ELSE Null

AuthorizeFallback(p) ==
  /\ ~env.OAUTH_PROVIDER
  /\ AuthorizeFallbackRejection(p) = Null
  /\ Admitted("authorize") < MaxAuthorize
  /\ LET githubState == uuids + 1
     IN  /\ uuids' = githubState
         /\ OAUTH_KV' = KVPut(OAUTH_KV, << "github_state", githubState >>,
                              [ oauth_params  |-> p,
                                oauth_request |-> Null ])
         /\ done' = done \cup
              { Finished("authorize", p, Null, Redirect(GithubAuthUrl(githubState))) }
  /\ UNCHANGED << env, inflight, RATE_LIMIT_KV >>

\* env.OAUTH_PROVIDER.parseAuthRequest(request): the request information
\* the helper of the imported library returns when it does not throw.
ParseAuthRequest(p) ==
  [ responseType        |-> p.response_type,
    clientId            |-> p.client_id,
    redirectUri         |-> p.redirect_uri,
    scope               |-> p.scope,
    state               |-> p.state,
    codeChallenge       |-> p.code_challenge,
    codeChallengeMethod |-> p.code_challenge_method ]

\* /authorize through the provider's helper, which returns or throws: the
\* response that ends the request before the store is written, or Null.
AuthorizeProviderRejection(p, throws) ==
  IF throws THEN TemplateResponse(500, "Error: ${error.message}", << ThrownError.message >>)
  ELSE IF env.GITHUB_CLIENT_ID = ""
  THEN TextResponse(500, "GitHub OAuth not configured")
  ELSE Null

AuthorizeProvider(p) ==
  /\ env.OAUTH_PROVIDER
  /\ AuthorizeProviderRejection(p, FALSE) = Null
  /\ Admitted("authorize") < MaxAuthorize
  /\ LET githubState == uuids + 1
     IN  /\ uuids' = githubState
         /\ OAUTH_KV' = KVPut(OAUTH_KV, << "github_state", githubState >>,
                              [ oauth_params  |-> Null,
                                oauth_request |-> ParseAuthRequest(p) ])
         /\ done' = done \cup
              { Finished("authorize", p, Null, Redirect(GithubAuthUrl(githubState))) }
  /\ UNCHANGED << env, inflight, RATE_LIMIT_KV >>

\* The responses with which /authorize can end a request before it writes
\* the store; Null is among them if the handler can go on to write it.
AuthorizeRejections(p) ==
  IF env.OAUTH_PROVIDER
  THEN { AuthorizeProviderRejection(p, throws) : throws \in BOOLEAN }
  ELSE { AuthorizeFallbackRejection(p) }

(***************************************************************************)
(* GET /github/callback: get the session, delete it, then either complete  *)
(* through the provider or put an authorization code and redirect.         *)
(***************************************************************************)
\* A callback that goes on for every session that was ever created, found or
\* not.
CallbackRejectionNoLookup(p) ==
  IF p.code = << >> \/ p.state = NoId
  THEN TextResponse(400, "Missing code or state")
  ELSE IF p.state \notin SessionIds
  THEN TextResponse(400, "Invalid or expired session")
  ELSE Null

\* A callback that goes on without a provider code.
CallbackRejectionStateOnly(p) ==
  IF p.state = NoId
  THEN TextResponse(400, "Missing code or state")
  ELSE IF KVGet(OAUTH_KV, << "github_state", p.state >>) = Null
  THEN TextResponse(400, "Invalid or expired session")
  ELSE Null

\* The response that ends the request before the store is changed, or Null.
CallbackRejection(p) ==
  IF p.code = << >> \/ p.state = NoId
  THEN TextResponse(400, "Missing code or state")
  ELSE IF KVGet(OAUTH_KV, << "github_state", p.state >>) = Null
  THEN TextResponse(400, "Invalid or expired session")
  ELSE Null

\* Up to the result of OAUTH_KV.get.
CallbackGet(p) ==
  /\ CallbackRejection(p) = Null
  /\ BagCardinality(inflight) < MaxInFlight
  /\ Admitted("callback") < MaxCallback
  /\ inflight' = Start(Waiting("callback", p,
                               KVGet(OAUTH_KV, << "github_state", p.state >>), "delete"))
  /\ UNCHANGED << env, OAUTH_KV, uuids, done, RATE_LIMIT_KV >>

\* OAUTH_KV.delete of the session, and the choice of the branch.
CallbackDelete(r) ==
  /\ r \in At("callback", "delete")
  /\ LET session == r.data
     IN  /\ OAUTH_KV' = KVDelete(OAUTH_KV, << "github_state", r.params.state >>)
         /\ IF session.oauth_request # Null /\ env.OAUTH_PROVIDER
            THEN /\ inflight' = Continue(r, [r EXCEPT !.pc = "complete"])
                 /\ UNCHANGED done
            ELSE IF session.oauth_params # Null
            THEN /\ inflight' = Continue(r, [r EXCEPT !.pc = "put"])
                 /\ UNCHANGED done
            ELSE /\ inflight' = Finish(r)
                 /\ done' = done \cup
                      { Finished("callback", r.params, session,
                                 TextResponse(500, "Invalid session data")) }
  /\ UNCHANGED << env, uuids, RATE_LIMIT_KV >>

\* env.OAUTH_PROVIDER.completeAuthorization, which belongs to the imported
\* library: it returns the URL to redirect to or throws.
CallbackComplete(r, throws) ==
  /\ r \in At("callback", "complete")
  /\ inflight' = Finish(r)
  /\ done' = done \cup
       { Finished("callback", r.params, r.data,
                  IF throws
                  THEN TemplateResponse(500, "Error completing authorization: ${error.message}",
                                        << ThrownError.message >>)
                  ELSE Redirect([url |-> "redirectTo"])) }
  /\ UNCHANGED << env, OAUTH_KV, uuids, RATE_LIMIT_KV >>

Min(a, b) ==
  IF a < b THEN a ELSE b

\* An identity reference made of the whole provider code.
UserIdWholeCode(code) ==
  << "github_user_" >> \o code

\* `github_user_${code.substring(0, 8)}`
UserId(code) ==
  << "github_user_" >> \o SubSeq(code, 1, Min(8, Len(code)))

\* A code record that is not bound to the PKCE challenge of the request.
AuthCodeRecordNoChallenge(oauth_params, code) ==
  [ client_id             |-> oauth_params.client_id,
    redirect_uri          |-> oauth_params.redirect_uri,
    code_challenge        |-> << >>,
    code_challenge_method |-> oauth_params.code_challenge_method,
    github_code           |-> code,
    user_id               |-> UserId(code) ]

\* The record stored under auth_code:<authCode>.
AuthCodeRecord(oauth_params, code) ==
  [ client_id             |-> oauth_params.client_id,
    redirect_uri          |-> oauth_params.redirect_uri,
    code_challenge        |-> oauth_params.code_challenge,
    code_challenge_method |-> oauth_params.code_challenge_method,
    github_code           |-> code,
    user_id               |-> UserId(code) ]

\* A redirect back to the client that drops the state of the caller.
ClientRedirectNoState(oauth_params, authCode) ==
  [ url   |-> oauth_params.redirect_uri,
    code  |-> authCode,
    state |-> "" ]

\* The Location of the redirect back to the client; an empty state stands
\* for no state parameter.
ClientRedirect(oauth_params, authCode) ==
  [ url   |-> oauth_params.redirect_uri,
    code  |-> authCode,
    state |-> oauth_params.state ]

\* The manual completion: OAUTH_KV.put of the authorization code, and the
\* redirect to the redirect URI of the session.
CallbackPut(r) ==
  /\ r \in At("callback", "put")
  /\ LET session  == r.data
         authCode == uuids + 1
     IN  /\ uuids' = authCode
         /\ OAUTH_KV' = KVPut(OAUTH_KV, << "auth_code", authCode >>,
                              AuthCodeRecord(session.oauth_params, r.params.code))
         /\ inflight' = Finish(r)
         /\ done' = done \cup
              { Finished("callback", r.params, session,
                         Redirect(ClientRedirect(session.oauth_params, authCode))) }
  /\ UNCHANGED << env, RATE_LIMIT_KV >>

(***************************************************************************)
(* POST /token: get the authorization code, delete it, verify PKCE, put    *)
(* the access token.                                                       *)
(***************************************************************************)
InvalidGrant(description) ==
  JsonResponse(400, [error |-> "invalid_grant", error_description |-> description])

\* A token endpoint that accepts every grant type.
TokenRejectionAnyGrant(p) ==
  IF p.code = NoId \/ p.code_verifier = << >>
  THEN JsonResponse(400, [ error             |-> "invalid_request",
                           error_description |-> "Missing code or code_verifier" ])
  ELSE IF KVGet(OAUTH_KV, << "auth_code", p.code >>) = Null
  THEN InvalidGrant("Invalid or expired authorization code")
  ELSE Null

\* A token endpoint that goes on for every code that was ever minted, found
\* or not.
TokenRejectionNoLookup(p) ==
  IF p.grant_type # "authorization_code"
  THEN JsonResponse(400, [error |-> "unsupported_grant_type"])
  ELSE IF p.code = NoId \/ p.code_verifier = << >>
  THEN JsonResponse(400, [ error             |-> "invalid_request",
                           error_description |-> "Missing code or code_verifier" ])
  ELSE IF p.code \notin AuthCodes
  THEN InvalidGrant("Invalid or expired authorization code")
  ELSE Null

\* A token endpoint that looks for the code and the verifier before the
\* grant type.
TokenRejectionPresenceFirst(p) ==
  IF p.code = NoId \/ p.code_verifier = << >>
  THEN JsonResponse(400, [ error             |-> "invalid_request",
                           error_description |-> "Missing code or code_verifier" ])
  ELSE IF p.grant_type # "authorization_code"
  THEN JsonResponse(400, [error |-> "unsupported_grant_type"])
  ELSE IF KVGet(OAUTH_KV, << "auth_code", p.code >>) = Null
  THEN InvalidGrant("Invalid or expired authorization code")
  ELSE Null

\* The response that ends the request before the store is changed, or Null.
TokenRejection(p) ==
  IF p.grant_type # "authorization_code"
  THEN JsonResponse(400, [error |-> "unsupported_grant_type"])
  ELSE IF p.code = NoId \/ p.code_verifier = << >>
  THEN JsonResponse(400, [ error             |-> "invalid_request",
                           error_description |-> "Missing code or code_verifier" ])
  ELSE IF KVGet(OAUTH_KV, << "auth_code", p.code >>) = Null
  THEN InvalidGrant("Invalid or expired authorization code")
  ELSE Null

\* Up to the result of OAUTH_KV.get.
TokenGet(p) ==
  /\ TokenRejection(p) = Null
  /\ BagCardinality(inflight) < MaxInFlight
  /\ Admitted("token") < MaxToken
  /\ inflight' = Start(Waiting("token", p,
                               KVGet(OAUTH_KV, << "auth_code", p.code >>), "delete"))
  /\ UNCHANGED << env, OAUTH_KV, uuids, done, RATE_LIMIT_KV >>

\* A check that rejects no verifier.
PkceRejectsNothing(authInfo, codeVerifier) ==
  FALSE

\* The PKCE check of the handler: whether it rejects the verifier.
PkceRejects(authInfo, codeVerifier) ==
  /\ authInfo.code_challenge # << >>
  /\ ChallengeOf[codeVerifier] # authInfo.code_challenge

\* The PKCE check first, and the delete of the code only once it has passed.
TokenDeleteAfterVerification(r) ==
  /\ r \in At("token", "delete")
  /\ IF PkceRejects(r.data, r.params.code_verifier)
     THEN /\ inflight' = Finish(r)
          /\ done' = done \cup
               { Finished("token", r.params, r.data,
                          InvalidGrant("Invalid code verifier")) }
          /\ UNCHANGED OAUTH_KV
     ELSE /\ OAUTH_KV' = KVDelete(OAUTH_KV, << "auth_code", r.params.code >>)
          /\ inflight' = Continue(r, [r EXCEPT !.pc = "put"])
          /\ UNCHANGED done
  /\ UNCHANGED << env, uuids, RATE_LIMIT_KV >>

\* A token endpoint that stores an access token for the code before it
\* verifies PKCE.
TokenDeleteStoresTokenFirst(r) ==
  /\ r \in At("token", "delete")
  /\ LET authInfo == r.data
     IN  /\ OAUTH_KV' = KVPut(KVDelete(OAUTH_KV, << "auth_code", r.params.code >>),
                              << "access_token", uuids + 1 >>,
                              [ user_id     |-> authInfo.user_id,
                                client_id   |-> authInfo.client_id,
                                github_code |-> authInfo.github_code ])
         /\ IF PkceRejects(authInfo, r.params.code_verifier)
            THEN /\ inflight' = Finish(r)
                 /\ done' = done \cup
                      { Finished("token", r.params, authInfo,
                                 InvalidGrant("Invalid code verifier")) }
            ELSE /\ inflight' = Continue(r, [r EXCEPT !.pc = "put"])
                 /\ UNCHANGED done
  /\ UNCHANGED << env, uuids, RATE_LIMIT_KV >>

\* OAUTH_KV.delete of the authorization code, then the PKCE check.
TokenDelete(r) ==
  /\ r \in At("token", "delete")
  /\ LET authInfo == r.data
     IN  /\ OAUTH_KV' = KVDelete(OAUTH_KV, << "auth_code", r.params.code >>)
         /\ IF PkceRejects(authInfo, r.params.code_verifier)
            THEN /\ inflight' = Finish(r)
                 /\ done' = done \cup
                      { Finished("token", r.params, authInfo,
                                 InvalidGrant("Invalid code verifier")) }
            ELSE /\ inflight' = Continue(r, [r EXCEPT !.pc = "put"])
                 /\ UNCHANGED done
  /\ UNCHANGED << env, uuids, RATE_LIMIT_KV >>

\* A catch that answers as if the exchange had succeeded.
TokenCatchAnswersOk(error) ==
  JsonResponse(200, [ access_token  |-> BogusId,
                      token_type    |-> "Bearer",
                      expires_in    |-> 3600,
                      refresh_token |-> BogusId ])

\* The catch of /token: the response when an operation of the handler throws.
TokenCatch(error) ==
  JsonResponse(500, [ error |-> "server_error" ])

\* The record stored under access_token:<accessToken>.
AccessTokenRecord(authInfo) ==
  [ user_id     |-> authInfo.user_id,
    client_id   |-> authInfo.client_id,
    github_code |-> authInfo.github_code ]

\* A token endpoint that returns the tokens without storing the access token.
TokenRespondWithoutPut(r) ==
  /\ r \in At("token", "put")
  /\ uuids' = uuids + 2
  /\ inflight' = Finish(r)
  /\ done' = done \cup
       { Finished("token", r.params, r.data,
                  JsonResponse(200,
                    [ access_token  |-> uuids + 1,
                      token_type    |-> "Bearer",
                      expires_in    |-> 3600,
                      refresh_token |-> uuids + 2 ])) }
  /\ UNCHANGED << env, OAUTH_KV, RATE_LIMIT_KV >>

\* A token endpoint that issues the same access token to every request.
TokenPutFixedToken(r) ==
  /\ r \in At("token", "put")
  /\ uuids' = uuids + 2
  /\ OAUTH_KV' = KVPut(OAUTH_KV, << "access_token", 1 >>, AccessTokenRecord(r.data))
  /\ inflight' = Finish(r)
  /\ done' = done \cup
       { Finished("token", r.params, r.data,
                  JsonResponse(200,
                    [ access_token  |-> 1,
                      token_type    |-> "Bearer",
                      expires_in    |-> 3600,
                      refresh_token |-> uuids + 2 ])) }
  /\ UNCHANGED << env, RATE_LIMIT_KV >>

\* The access token and the refresh token are generated, the access token is
\* put in the store and both are returned.
TokenPut(r) ==
  /\ r \in At("token", "put")
  /\ LET authInfo     == r.data
         accessToken  == uuids + 1
         refreshToken == uuids + 2
     IN  /\ uuids' = refreshToken
         /\ OAUTH_KV' = KVPut(OAUTH_KV, << "access_token", accessToken >>,
                              AccessTokenRecord(authInfo))
         /\ inflight' = Finish(r)
         /\ done' = done \cup
              { Finished("token", r.params, authInfo,
                         JsonResponse(200,
                           [ access_token  |-> accessToken,
                             token_type    |-> "Bearer",
                             expires_in    |-> 3600,
                             refresh_token |-> refreshToken ])) }
  /\ UNCHANGED << env, RATE_LIMIT_KV >>

(***************************************************************************)
(* The gate of the protected path /sse (default.fetch): the origin guard,  *)
(* the rate limiter, then the lookup of the bearer token.                  *)
(***************************************************************************)
\* The stable outbound addresses of Anthropic.
AnthropicIps ==
  { "34.162.46.92", "34.162.102.82", "34.162.136.91", "34.162.142.92", "34.162.183.95" }

\* The address of a caller: one of the allow-list and one outside it.
ClientIps ==
  { "34.162.46.92", "203.0.113.7" }

\* The access token of every 200 of /token sent so far.
AccessTokens ==
  { d.resp.json.access_token : d \in { x \in done : x.ep = "token" /\ x.resp.status = 200 } }

\* The Authorization header: absent, or a scheme and a credential.
AuthorizationHeaders ==
  { << >> } \cup
  { << scheme, token >> : scheme \in { "Bearer", "bearer", "Basic" },
                          token \in AccessTokens \cup { BogusId } }

SseInputs ==
  [ ip : ClientIps, authorization : AuthorizationHeaders ]

\* Whether the address of the caller is in the allow-list.
validateAnthropicOrigin(request) ==
  request.ip \in AnthropicIps

\* A gate that takes the rate limiter for bound in every deployment.
BoundAlways(kv) ==
  TRUE

\* Whether the binding RATE_LIMIT_KV exists.
Bound(kv) ==
  DOMAIN kv # DOMAIN Null

\* The counter of an address in the current window.
RateCount(kv, ip) ==
  IF ip \in DOMAIN kv THEN kv[ip] ELSE 0

Unauthorized ==
  [ status   |-> 401,
    text     |-> "Unauthorized",
    json     |-> Null,
    location |-> Null,
    headers  |-> [ WWW_Authenticate |-> "Bearer" ] ]

\* The request handed to mcpHandlers.fetch with ctx.props set.
Forwarded(props) ==
  [ status |-> 0, props |-> props ]

\* A gate that takes no header for a Bearer header.
IsBearerNever(authHeader) ==
  FALSE

\* authHeader && authHeader.startsWith('Bearer ')
IsBearer(authHeader) ==
  authHeader # << >> /\ authHeader[1] = "Bearer"

\* A gate that forwards every request with a Bearer header.
BearerValidationNoLookup(kv, authHeader) ==
  IF IsBearer(authHeader)
  THEN Forwarded([ authenticated |-> TRUE, user_id |-> << >>, client_id |-> "" ])
  ELSE Unauthorized

\* The validation of the bearer token against a store.
BearerValidation(kv, authHeader) ==
  IF IsBearer(authHeader)
  THEN LET tokenInfo == KVGet(kv, << "access_token", authHeader[2] >>)
       IN  IF tokenInfo # Null
           THEN Forwarded([ authenticated |-> TRUE,
                            user_id       |-> tokenInfo.user_id,
                            client_id     |-> tokenInfo.client_id ])
           ELSE Unauthorized
  ELSE Unauthorized

\* The store operations of the bearer validation.
BearerOps(authHeader) ==
  IF IsBearer(authHeader) THEN << "token_get" >> ELSE << >>

\* A gate that counts a request before the origin guard refuses it.
SseStartCountsFirst(request) ==
  /\ env.ENABLE_IP_ALLOWLIST = "true" /\ ~validateAnthropicOrigin(request)
  /\ Bound(RATE_LIMIT_KV)
  /\ RATE_LIMIT_KV' = KVPut(RATE_LIMIT_KV, request.ip,
                            RateCount(RATE_LIMIT_KV, request.ip) + 1)
  /\ done' = done \cup
       { Finished("sse", request, [ops |-> << "ratelimit_get", "ratelimit_put" >>],
                  TextResponse(403, "Forbidden")) }
  /\ UNCHANGED << env, OAUTH_KV, uuids, inflight >>

\* A gate whose origin guard is on for every non-empty value of the toggle.
SseStartGuardTruthy(request) ==
  /\ IF env.ENABLE_IP_ALLOWLIST # "" /\ ~validateAnthropicOrigin(request)
     THEN /\ done' = done \cup
               { Finished("sse", request, [ops |-> << >>],
                          TextResponse(403, "Forbidden")) }
          /\ UNCHANGED inflight
     ELSE IF Bound(RATE_LIMIT_KV)
     THEN /\ BagCardinality(inflight) < MaxInFlight
          /\ inflight' = Start(Waiting("sse", request,
                                       [ ops   |-> << "ratelimit_get" >>,
                                         count |-> RateCount(RATE_LIMIT_KV, request.ip) ],
                                       "ratelimit"))
          /\ UNCHANGED done
     ELSE /\ done' = done \cup
               { Finished("sse", request, [ops |-> BearerOps(request.authorization)],
                          BearerValidation(OAUTH_KV, request.authorization)) }
          /\ UNCHANGED inflight
  /\ UNCHANGED << env, OAUTH_KV, uuids, RATE_LIMIT_KV >>

\* The origin guard, and then either the read of the rate limiter or, when
\* no rate limiter is bound, the bearer validation and the response.
SseStart(request) ==
  /\ IF env.ENABLE_IP_ALLOWLIST = "true" /\ ~validateAnthropicOrigin(request)
     THEN /\ done' = done \cup
               { Finished("sse", request, [ops |-> << >>],
                          TextResponse(403, "Forbidden")) }
          /\ UNCHANGED inflight
     ELSE IF Bound(RATE_LIMIT_KV)
     THEN /\ BagCardinality(inflight) < MaxInFlight
          /\ inflight' = Start(Waiting("sse", request,
                                       [ ops   |-> << "ratelimit_get" >>,
                                         count |-> RateCount(RATE_LIMIT_KV, request.ip) ],
                                       "ratelimit"))
          /\ UNCHANGED done
     ELSE /\ done' = done \cup
               { Finished("sse", request, [ops |-> BearerOps(request.authorization)],
                          BearerValidation(OAUTH_KV, request.authorization)) }
          /\ UNCHANGED inflight
  /\ UNCHANGED << env, OAUTH_KV, uuids, RATE_LIMIT_KV >>

\* A rate limiter that refuses only above the ceiling, one request too late.
SseRateLimitOffByOne(r) ==
  /\ r \in At("sse", "ratelimit")
  /\ IF r.data.count > env.RATE_LIMIT
     THEN /\ inflight' = Finish(r)
          /\ done' = done \cup
               { Finished("sse", r.params, [ops |-> r.data.ops],
                          TextResponse(429, "Too Many Requests")) }
          /\ UNCHANGED RATE_LIMIT_KV
     ELSE /\ RATE_LIMIT_KV' = KVPut(RATE_LIMIT_KV, r.params.ip, r.data.count + 1)
          /\ inflight' = Continue(r, [r EXCEPT !.pc = "bearer",
                                               !.data.ops = Append(@, "ratelimit_put")])
          /\ UNCHANGED done
  /\ UNCHANGED << env, OAUTH_KV, uuids >>

\* A rate limiter that counts every request and refuses none.
SseRateLimitNeverRefuses(r) ==
  /\ r \in At("sse", "ratelimit")
  /\ RATE_LIMIT_KV' = KVPut(RATE_LIMIT_KV, r.params.ip, r.data.count + 1)
  /\ inflight' = Continue(r, [r EXCEPT !.pc = "bearer",
                                       !.data.ops = Append(@, "ratelimit_put")])
  /\ UNCHANGED << env, OAUTH_KV, uuids, done >>

\* The rest of rateLimitCheck: the request is refused when the counter read
\* has reached the ceiling, and counted otherwise.
SseRateLimit(r) ==
  /\ r \in At("sse", "ratelimit")
  /\ IF r.data.count >= env.RATE_LIMIT
     THEN /\ inflight' = Finish(r)
          /\ done' = done \cup
               { Finished("sse", r.params, [ops |-> r.data.ops],
                          TextResponse(429, "Too Many Requests")) }
          /\ UNCHANGED RATE_LIMIT_KV
     ELSE /\ RATE_LIMIT_KV' = KVPut(RATE_LIMIT_KV, r.params.ip, r.data.count + 1)
          /\ inflight' = Continue(r, [r EXCEPT !.pc = "bearer",
                                               !.data.ops = Append(@, "ratelimit_put")])
          /\ UNCHANGED done
  /\ UNCHANGED << env, OAUTH_KV, uuids >>

\* A gate whose access tokens are good for one request: the validation
\* deletes the token it was shown.
SseBearerConsumesToken(r) ==
  /\ r \in At("sse", "bearer")
  /\ inflight' = Finish(r)
  /\ done' = done \cup
       { Finished("sse", r.params,
                  [ops |-> r.data.ops \o BearerOps(r.params.authorization)],
                  BearerValidation(OAUTH_KV, r.params.authorization)) }
  /\ OAUTH_KV' = IF IsBearer(r.params.authorization)
                 THEN KVDelete(OAUTH_KV, << "access_token", r.params.authorization[2] >>)
                 ELSE OAUTH_KV
  /\ UNCHANGED << env, uuids, RATE_LIMIT_KV >>

\* The bearer validation of a request the rate limiter has counted.
SseBearer(r) ==
  /\ r \in At("sse", "bearer")
  /\ inflight' = Finish(r)
  /\ done' = done \cup
       { Finished("sse", r.params,
                  [ops |-> r.data.ops \o BearerOps(r.params.authorization)],
                  BearerValidation(OAUTH_KV, r.params.authorization)) }
  /\ UNCHANGED << env, OAUTH_KV, uuids, RATE_LIMIT_KV >>

\* The window of a counter elapses: its TTL removes it.
RateWindowExpire(ip) ==
  /\ Bound(RATE_LIMIT_KV)
  /\ ip \in DOMAIN RATE_LIMIT_KV
  /\ RATE_LIMIT_KV' = KVDelete(RATE_LIMIT_KV, ip)
  /\ UNCHANGED << env, OAUTH_KV, uuids, inflight, done >>

(***************************************************************************)
(* The store removes a key when its expirationTtl has elapsed.  Time is    *)
(* not measured: a key may expire at any moment after it was put.          *)
(***************************************************************************)
Expire(key) ==
  /\ key \in DOMAIN OAUTH_KV
  /\ OAUTH_KV' = KVDelete(OAUTH_KV, key)
  /\ UNCHANGED << env, uuids, inflight, done, RATE_LIMIT_KV >>

(***************************************************************************)
(* The specification.                                                      *)
(***************************************************************************)
Init ==
  /\ env \in Envs
  /\ OAUTH_KV = [key \in {} |-> Null]
  /\ uuids = 0
  /\ inflight = EmptyBag
  /\ done = {}
  /\ RATE_LIMIT_KV = Null

Next ==
  \/ \E p \in AuthorizeInputs : AuthorizeFallback(p)
  \/ \E p \in AuthorizeInputs : AuthorizeProvider(p)
  \/ \E p \in CallbackInputs : CallbackGet(p)
  \/ \E r \in InFlight : CallbackDelete(r)
  \/ \E r \in InFlight, throws \in BOOLEAN : CallbackComplete(r, throws)
  \/ \E r \in InFlight : CallbackPut(r)
  \/ \E p \in TokenInputs : TokenGet(p)
  \/ \E r \in InFlight : TokenDelete(r)
  \/ \E r \in InFlight : TokenPut(r)
  \/ \E key \in DOMAIN OAUTH_KV : Expire(key)

Spec ==
  Init /\ [][Next]_vars

(***************************************************************************)
(* One client that follows the flow, with the gate of /sse: the request    *)
(* of the end-to-end scenario, the callback of GitHub for each session and *)
(* the exchange of each code with the verifier of the challenge, none of   *)
(* them sent twice.  FlowSpec has no expiry; GateSpec has.                 *)
(***************************************************************************)
FlowCallbackInputs ==
  { [code |-> GH1, state |-> s] : s \in SessionIds }

FlowTokenInputs ==
  { [ grant_type    |-> "authorization_code",
      code          |-> c,
      code_verifier |-> V1,
      client_id     |-> AuthorizeBase.client_id ] : c \in AuthCodes }

FlowInit ==
  /\ env \in GateEnvs
  /\ OAUTH_KV = [key \in {} |-> Null]
  /\ uuids = 0
  /\ inflight = EmptyBag
  /\ done = {}
  /\ RATE_LIMIT_KV \in { Null, [ip \in {} |-> 0] }

FlowNext ==
  \/ /\ \A r \in done : r.ep # "authorize"
     /\ AuthorizeFallback(AuthorizeBase)
  \/ \E p \in FlowCallbackInputs :
       /\ \A r \in InFlight \cup done : r.ep = "callback" => r.params.state # p.state
       /\ CallbackGet(p)
  \/ \E r \in InFlight : CallbackDelete(r)
  \/ \E r \in InFlight : CallbackPut(r)
  \/ \E p \in FlowTokenInputs :
       /\ \A r \in InFlight \cup done : r.ep = "token" => r.params.code # p.code
       /\ TokenGet(p)
  \/ \E r \in InFlight : TokenDelete(r)
  \/ \E r \in InFlight : TokenPut(r)
  \/ \E request \in SseInputs :
       /\ Admitted("sse") < MaxSse
       /\ SseStart(request)
  \/ \E r \in InFlight : SseRateLimit(r)
  \/ \E r \in InFlight : SseBearer(r)

FlowSpec ==
  FlowInit /\ [][FlowNext]_vars

GateNext ==
  \/ FlowNext
  \/ \E key \in DOMAIN OAUTH_KV : Expire(key)
  \/ \E ip \in ClientIps : RateWindowExpire(ip)

GateSpec ==
  FlowInit /\ [][GateNext]_vars

(***************************************************************************)
(* Properties.                                                             *)
(***************************************************************************)
\* The finished invocations of an endpoint.
Done(ep) ==
  { d \in done : d.ep = ep }

\* The /token invocations that returned 200 with an access token.
TokenSuccesses ==
  { d \in Done("token") : d.resp.status = 200 }

\* The /github/callback invocations that minted an authorization code.
CallbackMints ==
  { d \in Done("callback") : d.resp.status = 302 /\ "code" \in DOMAIN d.resp.location }

\* The /github/callback invocations that completed successfully.
CallbackSuccesses ==
  { d \in Done("callback") : d.resp.status = 302 }

\* A /token request with the authorization-code grant, a code and a verifier.
WellFormedToken(p) ==
  /\ p.grant_type = "authorization_code"
  /\ p.code # NoId
  /\ p.code_verifier # << >>


\* C2: of the /github/callback requests that carry the same state, at most one
\* creates an AuthorizationCode.
C2_SessionRedeemedAtMostOnce ==
  \A d1, d2 \in CallbackMints : d1.params.state = d2.params.state => d1 = d2

\* C3: once a /github/callback request with some state has completed
\* successfully, a /github/callback request that arrives with the same state and
\* any provider code is answered 400 'Invalid or expired session', which ends it
\* before it changes the store.
C3_ReplayedCallbackFails ==
  \A p \in CallbackInputs :
    (p.code # << >> /\ \E d \in CallbackSuccesses : d.params.state = p.state)
      => CallbackRejection(p) = TextResponse(400, "Invalid or expired session")

\* A callback has minted a code and a replay with the other provider code is
\* refused.
C3_Witness ==
  \E d \in CallbackMints :
    \E p \in CallbackInputs :
      /\ p.state = d.params.state
      /\ p.code # << >>
      /\ p.code # d.params.code
      /\ CallbackRejection(p) = TextResponse(400, "Invalid or expired session")

(***************************************************************************)
(* PKCE with S256 as RFC 7636 defines it: the base64url encoding (alphabet *)
(* A-Z a-z 0-9 - _), without padding, of the SHA-256 digest of the         *)
(* verifier.                                                               *)
(***************************************************************************)
B64UrlAlphabet ==
  Upper \o Lower \o Digits \o << "-", "_" >>

RECURSIVE Base64UrlNoPad(_)
Base64UrlNoPad(bytes) ==
  LET n == Len(bytes)
  IN  IF n = 0 THEN << >>
      ELSE IF n = 1
      THEN << B64UrlAlphabet[(bytes[1] \div 4) + 1],
              B64UrlAlphabet[((bytes[1] % 4) * 16) + 1] >>
      ELSE IF n = 2
      THEN << B64UrlAlphabet[(bytes[1] \div 4) + 1],
              B64UrlAlphabet[((bytes[1] % 4) * 16 + (bytes[2] \div 16)) + 1],
              B64UrlAlphabet[((bytes[2] % 16) * 4) + 1] >>
      ELSE << B64UrlAlphabet[(bytes[1] \div 4) + 1],
              B64UrlAlphabet[((bytes[1] % 4) * 16 + (bytes[2] \div 16)) + 1],
              B64UrlAlphabet[((bytes[2] % 16) * 4 + (bytes[3] \div 64)) + 1],
              B64UrlAlphabet[(bytes[3] % 64) + 1] >>
             \o Base64UrlNoPad(SubSeq(bytes, 4, n))

S256 ==
  [v \in CodeVerifiers |-> Base64UrlNoPad(Sha256Digest(TextEncode(v)))]

\* The /token invocations that returned 200 for a code that stores a challenge,
\* which the verifier they presented matches.
VerifiedSuccesses ==
  { d \in TokenSuccesses : /\ d.data.code_challenge # << >>
                           /\ S256[d.params.code_verifier] = d.data.code_challenge }

\* C1: of the POST /token requests that present the same authorization
\* code with a correct verifier, at most one returns 200 with an access token,
\* and every /token request that starts after one of them has completed is
\* answered invalid_grant.
C1_CodeRedeemedAtMostOnce ==
  /\ \A d1, d2 \in VerifiedSuccesses : d1.params.code = d2.params.code => d1 = d2
  /\ \A p \in TokenInputs :
       (WellFormedToken(p) /\ \E d \in VerifiedSuccesses : d.params.code = p.code)
         => TokenRejection(p) = InvalidGrant("Invalid or expired authorization code")

C5_PkceRoundTrip ==
  /\ \A d \in Done("token") :
       d.data.code_challenge # << >>
         => IF S256[d.params.code_verifier] = d.data.code_challenge
            THEN d.resp.status = 200
            ELSE d.resp = InvalidGrant("Invalid code verifier")
  /\ \A r \in At("token", "put") :
       r.data.code_challenge # << >>
         => S256[r.params.code_verifier] = r.data.code_challenge

\* One request was refused for its verifier and another, for a code with the
\* same challenge, succeeded.
C5_Witness ==
  /\ \E d \in TokenSuccesses :
       d.data.code_challenge = CH1 /\ d.params.code_verifier = V1
  /\ \E d \in Done("token") :
       /\ d.data.code_challenge = CH1
       /\ d.params.code_verifier = V2
       /\ d.resp = InvalidGrant("Invalid code verifier")

\* C6: a code minted for an authorization request whose code_challenge_method
\* is not S256 is never exchanged for an access token.
C6_OnlyS256Honoured ==
  \A d \in TokenSuccesses : d.data.code_challenge_method = "S256"

\* C7: POST /token succeeds only if the client_id it submits is the client_id
\* stored with the code.
C7_CodeBoundToClient ==
  \A d \in TokenSuccesses : d.params.client_id = d.data.client_id

\* C8: a POST /token invocation that found the code deletes it before it
\* verifies PKCE; after a request has failed with a verifier mismatch the code is
\* absent from the store and a request with that code and any verifier is
\* answered invalid_grant.
C8_CodeDeletedBeforeVerification ==
  /\ \A r \in At("token", "put") :
       << "auth_code", r.params.code >> \notin DOMAIN OAUTH_KV
  /\ \A d \in Done("token") :
       d.resp = InvalidGrant("Invalid code verifier")
         => /\ << "auth_code", d.params.code >> \notin DOMAIN OAUTH_KV
            /\ \A p \in TokenInputs :
                 (WellFormedToken(p) /\ p.code = d.params.code)
                   => TokenRejection(p)
                        = InvalidGrant("Invalid or expired authorization code")

\* A request failed with a verifier mismatch and the request with the same code
\* and the verifier of the challenge is refused.
C8_Witness ==
  \E d \in Done("token") :
    /\ d.resp = InvalidGrant("Invalid code verifier")
    /\ d.data.code_challenge = CH1
    /\ \E p \in TokenInputs :
         /\ WellFormedToken(p)
         /\ p.code = d.params.code
         /\ p.code_verifier = V1
         /\ TokenRejection(p) = InvalidGrant("Invalid or expired authorization code")

\* C9: /github/callback creates an AuthorizationCode only for a provider code
\* that GitHub issued.
C9_ProviderCodeValidated ==
  \A d \in CallbackMints : d.params.code \in IssuedByGitHub

\* The sessions in the store.
Sessions ==
  { OAUTH_KV[key] : key \in { x \in DOMAIN OAUTH_KV : x[1] = "github_state" } }

\* C10: GET /authorize with response_type, client_id or redirect_uri absent is
\* answered 400 before any store write, and every session in the store has a
\* client id and a redirect URI.
C10_AuthorizeValidates ==
  /\ \A p \in AuthorizeInputs :
       (p.response_type = "" \/ p.client_id = "" \/ p.redirect_uri = "")
         => /\ Null \notin AuthorizeRejections(p)
            /\ \A r \in AuthorizeRejections(p) : r.status = 400
  /\ \A session \in Sessions :
       IF session.oauth_params # Null
       THEN session.oauth_params.client_id # "" /\ session.oauth_params.redirect_uri # ""
       ELSE session.oauth_request.clientId # "" /\ session.oauth_request.redirectUri # ""

\* The /authorize invocations that were answered with the redirect to GitHub.
AuthorizeRedirects ==
  { d \in Done("authorize") : d.resp.status = 302 }

\* The parameters a session stores for a request to /authorize.
StoredParams(session) ==
  IF session.oauth_params # Null
  THEN session.oauth_params
  ELSE [ response_type         |-> session.oauth_request.responseType,
         client_id             |-> session.oauth_request.clientId,
         redirect_uri          |-> session.oauth_request.redirectUri,
         code_challenge        |-> session.oauth_request.codeChallenge,
         code_challenge_method |-> session.oauth_request.codeChallengeMethod,
         state                 |-> session.oauth_request.state,
         scope                 |-> session.oauth_request.scope ]

\* C11: a step in which GET /authorize answers 302 writes exactly one key of
\* the store, github_state:<id> for an identifier never generated before, which
\* was not a key and holds the parameters of the request; every other key keeps
\* its value; the redirect goes to GitHub with that identifier as state and the
\* broker's own /github/callback, not the redirect URI of the caller, as
\* redirect_uri.  A request with response_type, client_id and redirect_uri is
\* not refused by the fallback.
C11_AuthorizeWritesOneSession ==
  [][ /\ \A d \in AuthorizeRedirects' \ AuthorizeRedirects :
           LET id  == d.resp.location.state
               key == << "github_state", id >>
           IN  /\ id > uuids
               /\ key \notin DOMAIN OAUTH_KV
               /\ DOMAIN OAUTH_KV' = DOMAIN OAUTH_KV \cup { key }
               /\ \A k \in DOMAIN OAUTH_KV : OAUTH_KV'[k] = OAUTH_KV[k]
               /\ StoredParams(OAUTH_KV'[key]) = d.params
               /\ d.resp.location.url = GITHUB_AUTH_URL
               /\ d.resp.location.client_id = env.GITHUB_CLIENT_ID
               /\ d.resp.location.scope = "user:email"
               /\ d.resp.location.redirect_uri = "/github/callback"
               /\ d.resp.location.redirect_uri # d.params.redirect_uri
      /\ \A p \in AuthorizeInputs :
           (p.response_type # "" /\ p.client_id # "" /\ p.redirect_uri # "")
             => AuthorizeFallbackRejection(p) = Null
    ]_vars

\* /authorize has answered 302 and the session it wrote is in the store.
C11_Witness ==
  \E d \in AuthorizeRedirects :
    /\ << "github_state", d.resp.location.state >> \in DOMAIN OAUTH_KV
    /\ StoredParams(OAUTH_KV[<< "github_state", d.resp.location.state >>]) = d.params

\* C12: a step in which /github/callback mints a code answers 302 to the
\* redirect URI of the authorization request that created the session, with the
\* newly generated code and the state of that request and nothing else; the
\* code differs from the identifier of the session; and the record of the code
\* is in the store when the redirect is returned.
C12_CallbackRedirectsToClient ==
  [][ \A d \in CallbackMints' \ CallbackMints :
        LET location == d.resp.location
        IN  /\ DOMAIN location = { "url", "code", "state" }
            /\ \E a \in AuthorizeRedirects :
                 /\ a.resp.location.state = d.params.state
                 /\ location.url = a.params.redirect_uri
                 /\ location.state = a.params.state
            /\ location.code > uuids
            /\ location.code # d.params.state
            /\ << "auth_code", location.code >> \notin DOMAIN OAUTH_KV
            /\ << "auth_code", location.code >> \in DOMAIN OAUTH_KV'
            /\ OAUTH_KV'[<< "auth_code", location.code >>]
                 = AuthCodeRecord(d.data.oauth_params, d.params.code)
    ]_vars

\* A callback has redirected to the client with a code and the state xyz.
C12_Witness ==
  \E d \in CallbackMints :
    /\ d.resp.location.url = AuthorizeBase.redirect_uri
    /\ d.resp.location.state = AuthorizeBase.state
    /\ << "auth_code", d.resp.location.code >> \in DOMAIN OAUTH_KV

\* The invocations of an endpoint that reached the store, finished or not.
Invocations(ep) ==
  { r \in InFlight \cup done : r.ep = ep }

UnsupportedGrantType ==
  JsonResponse(400, [error |-> "unsupported_grant_type"])

\* C15: POST /token with a grant_type other than authorization_code,
\* refresh_token and an absent grant_type included, is answered 400
\* unsupported_grant_type, whatever code and verifier come with it, and no
\* invocation with such a grant_type ever reads, writes or deletes a key.
C15_OnlyAuthorizationCodeGrant ==
  /\ \A p \in TokenInputs :
       p.grant_type # "authorization_code" => TokenRejection(p) = UnsupportedGrantType
  /\ \A r \in Invocations("token") : r.params.grant_type = "authorization_code"

\* A request with grant_type refresh_token, a stored code and the verifier of
\* its challenge is refused, and the same request with grant_type
\* authorization_code would go on to redeem the code; likewise with no
\* grant_type.
C15_Witness ==
  \E p \in TokenInputs :
    /\ p.grant_type = "refresh_token"
    /\ << "auth_code", p.code >> \in DOMAIN OAUTH_KV
    /\ OAUTH_KV[<< "auth_code", p.code >>].code_challenge = CH1
    /\ p.code_verifier = V1
    /\ TokenRejection(p) = UnsupportedGrantType
    /\ TokenRejection([p EXCEPT !.grant_type = ""]) = UnsupportedGrantType
    /\ TokenRejection([p EXCEPT !.grant_type = "authorization_code"]) = Null

\* C19: a minted code that is no longer in the store although no POST /token
\* invocation ever found it (its TTL has removed it) is refused: every POST
\* /token with the authorization-code grant, that code and any verifier is
\* answered 400 invalid_grant before any store operation.
C19_ExpiredCodeIsRefused ==
  \A c \in AuthCodes :
    ( /\ << "auth_code", c >> \notin DOMAIN OAUTH_KV
      /\ \A r \in Invocations("token") : r.params.code # c )
      => \A p \in TokenInputs :
           (WellFormedToken(p) /\ p.code = c)
             => TokenRejection(p) = InvalidGrant("Invalid or expired authorization code")

\* A code minted with a challenge has expired unredeemed and the request with
\* the verifier of the challenge is refused.
C19_Witness ==
  \E d \in CallbackMints :
    /\ d.data.oauth_params.code_challenge = CH1
    /\ << "auth_code", d.resp.location.code >> \notin DOMAIN OAUTH_KV
    /\ \A r \in Invocations("token") : r.params.code # d.resp.location.code
    /\ \E p \in TokenInputs :
         /\ WellFormedToken(p)
         /\ p.code = d.resp.location.code
         /\ p.code_verifier = V1
         /\ TokenRejection(p) = InvalidGrant("Invalid or expired authorization code")

\* C20: a session that is no longer in the store although no /github/callback
\* invocation ever found it (its TTL has removed it) is refused: every
\* /github/callback with its identifier and a provider code is answered 400
\* 'Invalid or expired session' before any store operation.
C20_ExpiredSessionIsRefused ==
  \A s \in SessionIds :
    ( /\ << "github_state", s >> \notin DOMAIN OAUTH_KV
      /\ \A r \in Invocations("callback") : r.params.state # s )
      => \A p \in CallbackInputs :
           (p.state = s /\ p.code # << >>)
             => CallbackRejection(p) = TextResponse(400, "Invalid or expired session")

\* A session has expired unredeemed and the callback of GitHub for it is
\* refused.
C20_Witness ==
  \E s \in SessionIds :
    /\ << "github_state", s >> \notin DOMAIN OAUTH_KV
    /\ \A r \in Invocations("callback") : r.params.state # s
    /\ \E p \in CallbackInputs :
         /\ p.state = s
         /\ p.code = GH1
         /\ CallbackRejection(p) = TextResponse(400, "Invalid or expired session")

\* C13: a request to /sse is handed to the resource provider only if its
\* Authorization header is a Bearer header and the store holds a record for
\* exactly that token when it is looked up, and then with the user_id and the
\* client_id of that record; a request the origin guard and the rate limiter
\* let through and that has no such header or no such record is answered 401
\* with WWW-Authenticate: Bearer.  The origin guard refuses only when
\* ENABLE_IP_ALLOWLIST is 'true' and the rate limiter only when its store is
\* bound.
C13_BearerGate ==
  [][ \A d \in Done("sse")' \ Done("sse") :
        LET authHeader == d.params.authorization
            found      == /\ IsBearer(authHeader)
                          /\ << "access_token", authHeader[2] >> \in DOMAIN OAUTH_KV
        IN  /\ d.resp.status \in { 0, 401, 403, 429 }
            /\ d.resp.status = 403 => env.ENABLE_IP_ALLOWLIST = "true"
            /\ d.resp.status = 429 => Bound(RATE_LIMIT_KV)
            /\ d.resp.status = 0
                 => /\ found
                    /\ d.resp.props =
                         [ authenticated |-> TRUE,
                           user_id   |-> OAUTH_KV[<< "access_token", authHeader[2] >>].user_id,
                           client_id |-> OAUTH_KV[<< "access_token", authHeader[2] >>].client_id ]
            /\ d.resp.status = 401 => (~found /\ d.resp = Unauthorized)
    ]_vars

\* With the guard on and the rate limiter bound, a request with the issued
\* token was forwarded and, after the record expired, a request with the same
\* token was answered 401.
C13_Witness ==
  /\ env.ENABLE_IP_ALLOWLIST = "true"
  /\ Bound(RATE_LIMIT_KV)
  /\ \E d1, d2 \in Done("sse") :
       /\ d1.resp.status = 0
       /\ d2.resp = Unauthorized
       /\ d2.params.authorization = d1.params.authorization

\* C14: the origin guard refuses with 403 before any store operation (the
\* counter and the token store are untouched), the rate limiter refuses with
\* 429 after its read and before any token lookup, and a request that reaches
\* the bearer validation with a rate limiter bound has been counted: the
\* counter of its address was written before the token was looked up.
C14_GateOrder ==
  [][ /\ \A d \in Done("sse")' \ Done("sse") :
           /\ (env.ENABLE_IP_ALLOWLIST = "true" /\ ~validateAnthropicOrigin(d.params))
                => d.resp.status = 403
           /\ d.resp.status = 403
                => /\ d.data.ops = << >>
                   /\ RATE_LIMIT_KV' = RATE_LIMIT_KV
                   /\ OAUTH_KV' = OAUTH_KV
           /\ d.resp.status = 429
                => /\ d.data.ops = << "ratelimit_get" >>
                   /\ OAUTH_KV' = OAUTH_KV
           /\ (d.resp.status \in { 0, 401 } /\ Bound(RATE_LIMIT_KV))
                => d.data.ops = << "ratelimit_get", "ratelimit_put" >>
                                  \o BearerOps(d.params.authorization)
      /\ \A r \in At("sse", "bearer")' \ At("sse", "bearer") :
           /\ r.params.ip \in DOMAIN RATE_LIMIT_KV'
           /\ RATE_LIMIT_KV'[r.params.ip] = r.data.count + 1
    ]_vars

\* With the guard on and the rate limiter bound: one request was refused by
\* the guard, and one request with an unknown token was counted and then
\* answered 401.
C14_Witness ==
  /\ env.ENABLE_IP_ALLOWLIST = "true"
  /\ Bound(RATE_LIMIT_KV)
  /\ \E d1, d2 \in Done("sse") :
       /\ d1.resp.status = 403
       /\ d2.resp = Unauthorized
       /\ d2.params.authorization = << "Bearer", BogusId >>
       /\ d2.data.ops = << "ratelimit_get", "ratelimit_put", "token_get" >>
       /\ RateCount(RATE_LIMIT_KV, d2.params.ip) = 1

\* Both the rate limiter's refusal and a forwarded request have happened.
C14_WitnessLimited ==
  \E d1, d2 \in Done("sse") :
    /\ d1.resp.status = 429
    /\ d2.resp.status = 0

\* C16: a step in which POST /token answers 200 returns token_type Bearer,
\* expires_in 3600, a refresh token and an access token, both newly generated;
\* in the state in which the response is produced the store holds the record of
\* that access token, so that the bearer validation of a request presenting
\* the token forwards it with the user_id and client_id of the redeemed code.
C16_TokenResponse ==
  [][ \A d \in TokenSuccesses' \ TokenSuccesses :
        LET json == d.resp.json
            key  == << "access_token", d.resp.json.access_token >>
        IN  /\ json.token_type = "Bearer"
            /\ json.expires_in = 3600
            /\ json.access_token > uuids
            /\ json.refresh_token > uuids
            /\ json.refresh_token # json.access_token
            /\ key \notin DOMAIN OAUTH_KV
            /\ key \in DOMAIN OAUTH_KV'
            /\ OAUTH_KV'[key] = AccessTokenRecord(d.data)
            /\ BearerValidation(OAUTH_KV', << "Bearer", json.access_token >>)
                 = Forwarded([ authenticated |-> TRUE,
                               user_id       |-> d.data.user_id,
                               client_id     |-> d.data.client_id ])
    ]_vars

\* A token was issued for the code of the honest callback and its record is
\* in the store.
C16_Witness ==
  \E d \in TokenSuccesses :
    /\ d.data.github_code = GH1
    /\ << "access_token", d.resp.json.access_token >> \in DOMAIN OAUTH_KV
    /\ BearerValidation(OAUTH_KV, << "Bearer", d.resp.json.access_token >>).status = 0

\* C18: a request presenting an issued access token whose record is no longer
\* in the store does not pass the bearer validation (401), and no step of the
\* broker puts a record under an access token that was generated before or
\* changes the record of a stored one.
C18_AccessTokensExpire ==
  /\ [](\A t \in AccessTokens :
          << "access_token", t >> \notin DOMAIN OAUTH_KV
            => BearerValidation(OAUTH_KV, << "Bearer", t >>) = Unauthorized)
  /\ [][ \A key \in DOMAIN OAUTH_KV' :
           key[1] = "access_token"
             => IF key \in DOMAIN OAUTH_KV
                THEN OAUTH_KV'[key] = OAUTH_KV[key]
                ELSE key[2] > uuids
       ]_vars

\* An issued access token has expired, while a later one is stored.
C18_Witness ==
  \E t1, t2 \in AccessTokens :
    /\ t1 < t2
    /\ << "access_token", t1 >> \notin DOMAIN OAUTH_KV
    /\ << "access_token", t2 >> \in DOMAIN OAUTH_KV
    /\ BearerValidation(OAUTH_KV, << "Bearer", t1 >>) = Unauthorized

\* The deployment in which the origin guard is off and no rate limiter is
\* bound.
GateOpen ==
  env.ENABLE_IP_ALLOWLIST # "true" /\ ~Bound(RATE_LIMIT_KV)

\* C17: in the flow of one client, without replay and without expiry, every
\* step succeeds.  The request of the scenario is answered 302 and its session
\* stays in the store until the callback for it arrives; the callback is
\* answered 302 to https://client.example/cb with a code and state xyz, and
\* the code stays in the store until the token request for it arrives; the
\* token request with the matching verifier is answered 200 with a Bearer
\* access token; the bearer validation forwards a request with that token;
\* and of the requests to /sse that the origin guard and the rate limiter let
\* through, the one with the token is forwarded and the one without an
\* Authorization header is answered 401.
C17_EndToEnd ==
  /\ AuthorizeFallbackRejection(AuthorizeBase) = Null
  /\ \A d \in Done("authorize") : d.resp.status = 302
  /\ \A p \in FlowCallbackInputs :
       (\A r \in Invocations("callback") : r.params.state # p.state)
         => CallbackRejection(p) = Null
  /\ \A d \in Done("callback") :
       /\ d.resp.status = 302
       /\ d.resp.location.url = "https://client.example/cb"
       /\ d.resp.location.state = "xyz"
       /\ d.resp.location.code \in AuthCodes
  /\ \A p \in FlowTokenInputs :
       (\A r \in Invocations("token") : r.params.code # p.code)
         => TokenRejection(p) = Null
  /\ \A r \in At("token", "delete") : ~PkceRejects(r.data, r.params.code_verifier)
  /\ \A d \in Done("token") :
       /\ d.resp.status = 200
       /\ d.resp.json.token_type = "Bearer"
       /\ d.resp.json.access_token \in AccessTokens
  /\ \A t \in AccessTokens :
       BearerValidation(OAUTH_KV, << "Bearer", t >>).status = 0
  /\ \A d \in Done("sse") :
       /\ d.params.authorization \in { << "Bearer", t >> : t \in AccessTokens }
            => /\ d.resp.status \in { 0, 403, 429 }
               /\ GateOpen => d.resp.status = 0
       /\ d.params.authorization = << >>
            => /\ d.resp.status \in { 401, 403, 429 }
               /\ d.resp.status = 401 => d.resp = Unauthorized
               /\ GateOpen => d.resp = Unauthorized

\* The flow has ended with an access token; a request with it was forwarded
\* and a request without a header was answered 401.
C17_Witness ==
  /\ \E d \in Done("token") :
       /\ d.params.code_verifier = V1
       /\ d.data.code_challenge = CH1
       /\ d.resp.status = 200
  /\ \E d1, d2 \in Done("sse") :
       /\ d1.params.authorization \in { << "Bearer", t >> : t \in AccessTokens }
       /\ d1.resp.status = 0
       /\ d2.params.authorization = << >>
       /\ d2.resp = Unauthorized

(***************************************************************************)
(* The rate limiter alone: the requests of /sse arrive one after the other *)
(* (a request starts when none is in flight), each carries the number of   *)
(* its arrival, the origin guard is off, the rate limiter is bound and no  *)
(* window has begun.  A window may elapse at any moment.                   *)
(***************************************************************************)
RateEnv ==
  [ OAUTH_PROVIDER      |-> FALSE,
    GITHUB_CLIENT_ID    |-> "gh-client",
    ENABLE_IP_ALLOWLIST |-> "",
    RATE_LIMIT          |-> RateLimitCeiling ]

RateInputs ==
  [ ip            : ClientIps,
    authorization : { << >>, << "Bearer", BogusId >> },
    n             : { Admitted("sse") } ]

RateInit ==
  /\ env = RateEnv
  /\ OAUTH_KV = [key \in {} |-> Null]
  /\ uuids = 0
  /\ inflight = EmptyBag
  /\ done = {}
  /\ RATE_LIMIT_KV = [ip \in {} |-> 0]

RateNext ==
  \/ \E request \in RateInputs :
       /\ Admitted("sse") < MaxSse
       /\ inflight = EmptyBag
       /\ SseStart(request)
  \/ \E r \in InFlight : SseRateLimit(r)
  \/ \E r \in InFlight : SseBearer(r)
  \/ \E ip \in ClientIps : RateWindowExpire(ip)

RateSpec ==
  RateInit /\ [][RateNext]_vars

\* The requests of an address that the rate limiter has admitted.
RateAdmitted(ip) ==
  { r \in Done("sse") \cup At("sse", "bearer") :
      /\ r.params.ip = ip
      /\ Len(r.data.ops) >= 2
      /\ r.data.ops[2] = "ratelimit_put" }

\* The requests of an address that the rate limiter has refused.
RateRefused(ip) ==
  { d \in Done("sse") : d.params.ip = ip /\ d.resp.status = 429 }

\* No request is refused before N requests of its address were admitted.
RateRefusalsFollowCeiling ==
  \A ip \in ClientIps : \A d \in RateRefused(ip) :
    Cardinality({ a \in RateAdmitted(ip) : a.params.n < d.params.n }) >= env.RATE_LIMIT

\* The counter of a window never exceeds the ceiling.
RateCountWithinCeiling ==
  \A ip \in ClientIps : RateCount(RATE_LIMIT_KV, ip) <= env.RATE_LIMIT

\* The step that decides a request whose read of the counter is still the
\* count of the window: with c < N requests counted in the window the
\* request is admitted and is the (c+1)-th of the window, so the first
\* request after the window has elapsed (c = 0) is admitted and the counter
\* restarts at 1; with N requests counted it is refused with 429 and the
\* counter stays.
RateStep ==
  \A r \in At("sse", "ratelimit") :
    ( /\ r \notin InFlight'
      /\ r.data.count = RateCount(RATE_LIMIT_KV, r.params.ip) )
    => IF r.data.count < env.RATE_LIMIT
       THEN /\ At("sse", "bearer")' # {}
            /\ \A a \in At("sse", "bearer")' : a.params = r.params
            /\ done' = done
            /\ RateCount(RATE_LIMIT_KV', r.params.ip) = r.data.count + 1
       ELSE /\ \E d \in done' \ done :
                 /\ d.params = r.params
                 /\ d.resp = TextResponse(429, "Too Many Requests")
            /\ inflight' = EmptyBag
            /\ RATE_LIMIT_KV' = RATE_LIMIT_KV

\* C21: with requests arriving one after the other and ceiling N, a request
\* that finds fewer than N requests counted in the window of its address is
\* admitted and counted, the request that finds N counted is refused with
\* 429, none is refused before N of its address were admitted, and the first
\* request after the window has elapsed is admitted and restarts the count
\* at 1.
C21_RateLimiterSequential ==
  /\ [](RateRefusalsFollowCeiling /\ RateCountWithinCeiling)
  /\ [][RateStep]_vars

\* N requests of one address were admitted and counted, and the next one of
\* that address was refused with 429 while the counter is at the ceiling.
C21_Witness ==
  \E ip \in ClientIps : \E d \in RateRefused(ip) :
    /\ Cardinality({ a \in RateAdmitted(ip) \cap done : a.params.n < d.params.n })
         = env.RATE_LIMIT
    /\ d.params.n = env.RATE_LIMIT
    /\ RateCount(RATE_LIMIT_KV, ip) = env.RATE_LIMIT

(***************************************************************************)
(* The rate limiter under concurrent requests: the requests of one window  *)
(* (no counter expires), each numbered by arrival, with up to MaxInFlight  *)
(* of them between two store operations.                                   *)
(***************************************************************************)
RaceEnv ==
  [ OAUTH_PROVIDER      |-> FALSE,
    GITHUB_CLIENT_ID    |-> "gh-client",
    ENABLE_IP_ALLOWLIST |-> "",
    RATE_LIMIT          |-> RaceCeiling ]

RaceInputs ==
  [ ip            : ClientIps,
    authorization : { << >> },
    n             : { Admitted("sse") } ]

RaceInit ==
  /\ env = RaceEnv
  /\ OAUTH_KV = [key \in {} |-> Null]
  /\ uuids = 0
  /\ inflight = EmptyBag
  /\ done = {}
  /\ RATE_LIMIT_KV = [ip \in {} |-> 0]

RaceNext ==
  \/ \E request \in RaceInputs :
       /\ Admitted("sse") < MaxRace
       /\ SseStart(request)
  \/ \E r \in InFlight : SseRateLimit(r)
  \/ \E r \in InFlight : SseBearer(r)

RaceSpec ==
  RaceInit /\ [][RaceNext]_vars

\* The step that decides a request in the rate limiter admits it exactly
\* when the count it read is below the ceiling, and then writes that count
\* plus one, whatever the counter has become since the read.
RaceStep ==
  \A r \in At("sse", "ratelimit") :
    r \notin InFlight'
    => IF r.data.count < env.RATE_LIMIT
       THEN /\ \E a \in At("sse", "bearer")' : a.params = r.params
            /\ done' = done
            /\ RateCount(RATE_LIMIT_KV', r.params.ip) = r.data.count + 1
       ELSE /\ \E d \in done' \ done :
                 /\ d.params = r.params
                 /\ d.resp.status = 429
            /\ RATE_LIMIT_KV' = RATE_LIMIT_KV

C23_OriginGuardGating ==
  IF env.ENABLE_IP_ALLOWLIST = "true"
  THEN /\ \A d \in Done("sse") :
            ~validateAnthropicOrigin(d.params)
              => d.resp = TextResponse(403, "Forbidden") /\ d.data.ops = << >>
       /\ \A r \in InFlight :
            r.ep = "sse" => validateAnthropicOrigin(r.params)
  ELSE \A d \in Done("sse") : d.resp.status # 403

\* With the guard on, a request from outside the allow-list was answered 403
\* and a request from an address of the allow-list was not.
C23_Witness ==
  /\ env.ENABLE_IP_ALLOWLIST = "true"
  /\ \E d1, d2 \in Done("sse") :
       /\ ~validateAnthropicOrigin(d1.params)
       /\ d1.resp.status = 403
       /\ validateAnthropicOrigin(d2.params)
       /\ d2.resp.status # 403

\* With the toggle set to another value, a request from outside the
\* allow-list was forwarded.
C23_WitnessDisabled ==
  /\ env.ENABLE_IP_ALLOWLIST = "false"
  /\ \E d \in Done("sse") :
       /\ ~validateAnthropicOrigin(d.params)
       /\ d.resp.status = 0

\* C24: when the binding RATE_LIMIT_KV is absent, no request to /sse consults
\* the rate limiter (none reads or writes a counter, none waits in it) and
\* none is answered 429.
C24_RateLimitingConfigGated ==
  RATE_LIMIT_KV = Null
    => /\ \A d \in Done("sse") :
            /\ d.resp.status # 429
            /\ \A i \in DOMAIN d.data.ops :
                 d.data.ops[i] \notin { "ratelimit_get", "ratelimit_put" }
       /\ \A r \in InFlight : r.ep # "sse"

\* Without the binding, more requests of one address than the ceiling have
\* reached the bearer validation.
C24_Witness ==
  /\ RATE_LIMIT_KV = Null
  /\ \E ip \in ClientIps :
       Cardinality({ d \in Done("sse") :
                       d.params.ip = ip /\ d.resp.status \in { 0, 401 } })
         > env.RATE_LIMIT

(***************************************************************************)
(* POST /register (default.fetch).  The body is a JSON object: a function  *)
(* from its field names to their values.                                   *)
(***************************************************************************)
\* The number of registrations.
MaxRegister ==
  3

\* { ...a, ...b }: the fields of both, those of b winning.
Spread(a, b) ==
  [k \in DOMAIN a \cup DOMAIN b |-> IF k \in DOMAIN b THEN b[k] ELSE a[k]]

\* The metadata a caller may send: none, a name, a name with redirect URIs,
\* and metadata that names a client id (unknown, or one already assigned) or
\* a creation time.
RegisterInputs ==
  { [x \in {} |-> ""],
    [client_name |-> "app"],
    [client_name |-> "app", redirect_uris |-> << "https://client.example/cb" >>],
    [client_name |-> "app", created_at |-> "1970"] }
  \cup { [client_name |-> "app", client_id |-> id] : id \in { BogusId } \cup 1..uuids }

\* The time Date.now() returns.
Now ==
  "Date.now()"

\* A registration that also stores an access token for the new client and
\* returns it.
RegisterIssuesToken(body) ==
  /\ Cardinality(Done("register")) < MaxRegister
  /\ LET clientId == uuids + 1
         token    == uuids + 2
     IN  /\ uuids' = token
         /\ OAUTH_KV' = KVPut(KVPut(OAUTH_KV, << "client", clientId >>,
                                    Spread(body, [client_id |-> clientId, created_at |-> Now])),
                              << "access_token", token >>,
                              [ user_id |-> << >>, client_id |-> clientId, github_code |-> << >> ])
         /\ done' = done \cup
              { Finished("register", body, [clientId |-> clientId],
                         JsonResponse(201, Spread([client_id |-> clientId,
                                                   registration_access_token |-> token], body))) }
  /\ UNCHANGED << env, inflight, RATE_LIMIT_KV >>

\* POST /register: a new client id, the put of the registration and the 201.
Register(body) ==
  /\ Cardinality(Done("register")) < MaxRegister
  /\ LET clientId == uuids + 1
     IN  /\ uuids' = clientId
         /\ OAUTH_KV' = KVPut(OAUTH_KV, << "client", clientId >>,
                              Spread(body, [client_id |-> clientId, created_at |-> Now]))
         /\ done' = done \cup
              { Finished("register", body, [clientId |-> clientId],
                         JsonResponse(201, Spread([client_id |-> clientId], body))) }
  /\ UNCHANGED << env, inflight, RATE_LIMIT_KV >>

RegisterNext ==
  \/ \E body \in RegisterInputs : Register(body)
  \/ \E key \in DOMAIN OAUTH_KV : Expire(key)

RegisterSpec ==
  FlowInit /\ [][RegisterNext]_vars

\* C25: every POST /register answers 201 with the metadata of the caller and
\* with the client_id that was generated for this registration, which is the
\* key (client:<id>) and the client_id of the registration that was stored.
C25_RegisterReturnsAssignedId ==
  [][ \A d \in Done("register")' \ Done("register") :
        \E key \in DOMAIN OAUTH_KV' \ DOMAIN OAUTH_KV :
          /\ key[1] = "client"
          /\ OAUTH_KV'[key].client_id = key[2]
          /\ d.resp.status = 201
          /\ d.resp.json.client_id = key[2]
          /\ \A k \in DOMAIN d.params \ { "client_id" } :
               d.resp.json[k] = d.params[k]
    ]_vars

\* The 500 responses of /authorize, /github/callback and /token: those that
\* ended a request and those the handlers give when an operation throws.
ServerErrors ==
  { r \in ( UNION { AuthorizeRejections(p) : p \in AuthorizeInputs }
            \cup { d.resp : d \in Done("authorize") \cup Done("callback") \cup Done("token") }
            \cup { TokenCatch(ThrownError) } ) \ { Null } :
      r.status = 500 }

\* Whether the body of a response has the message of an exception in it.
CarriesMessage(resp, error) ==
  \/ resp.text = error.message
  \/ "values" \in DOMAIN resp /\ \E i \in DOMAIN resp.values : resp.values[i] = error.message
  \/ resp.json # Null /\ \E k \in DOMAIN resp.json : resp.json[k] = error.message

\* C26: no 500 response of /authorize, /github/callback or /token has the
\* message of the exception that caused it in its body.
C26_ServerErrorsAreOpaque ==
  \A resp \in ServerErrors : ~CarriesMessage(resp, ThrownError)

(***************************************************************************)
(* The tools of the MCP server that call the Limitless API: delete_lifelog *)
(* (mcp.ts) and search_lifelogs, list_recent_lifelogs (mcp-agent.ts).  A   *)
(* finished call records the requests it sent upstream; the answer of the  *)
(* API is any status.  An optional argument is << >> when it is omitted    *)
(* and << value >> otherwise.                                              *)
(***************************************************************************)
\* The number of tool calls.
MaxTool ==
  2

MAX_RESULTS_LIMIT ==
  100

ToolEnvs ==
  { [ LIMITLESS_API_KEY |-> key ] : key \in { "", "sk-limitless" } }

UpstreamStatuses ==
  { 200, 404, 500 }

DeleteLifelogInputs ==
  [ id : { "lifelog-1" }, confirm : BOOLEAN ]

Limits ==
  { << >> } \cup { << n >> : n \in { -1, 0, 1, 10, 100, 101, 1000 } }

SearchLifelogsInputs ==
  [ query : { "dinner" }, limit : Limits, timezone : { << >>, << "Europe/Paris" >> } ]

ListRecentLifelogsInputs ==
  [ limit : Limits, date : { << >>, << "2025-01-01" >> }, timezone : { << >> },
    isStarred : { << >>, << TRUE >> } ]

\* The result of a tool: a text, or the error it threw.
ToolResult(text) ==
  [ isError |-> FALSE, text |-> text ]

ToolError(message) ==
  [ isError |-> TRUE, text |-> message ]

\* A tool that deletes without looking at confirm.
DeleteLifelogUnconfirmed(p, status) ==
  /\ Cardinality(done) < MaxTool
  /\ done' = done \cup
       { IF env.LIMITLESS_API_KEY = ""
         THEN Finished("delete_lifelog", p, [requests |-> << >>],
                       ToolError("LIMITLESS_API_KEY is not configured"))
         ELSE Finished("delete_lifelog", p,
                       [requests |-> << [ method   |-> "DELETE",
                                          endpoint |-> << "/v1/lifelogs/", p.id >>,
                                          apiKey   |-> env.LIMITLESS_API_KEY ] >>],
                       IF status = 200
                       THEN ToolResult("Successfully deleted lifelog")
                       ELSE IF status = 404
                       THEN ToolError("Lifelog not found or already deleted.")
                       ELSE ToolError("Failed to delete lifelog: ${errorText}")) }
  /\ UNCHANGED << env, OAUTH_KV, uuids, inflight, RATE_LIMIT_KV >>

\* delete_lifelog: the key, then the confirmation, then the DELETE.
DeleteLifelog(p, status) ==
  /\ Cardinality(done) < MaxTool
  /\ done' = done \cup
       { IF env.LIMITLESS_API_KEY = ""
         THEN Finished("delete_lifelog", p, [requests |-> << >>],
                       ToolError("LIMITLESS_API_KEY is not configured"))
         ELSE IF ~p.confirm
         THEN Finished("delete_lifelog", p, [requests |-> << >>],
                       ToolError("Deletion requires explicit confirmation. Set confirm: true to proceed."))
         ELSE Finished("delete_lifelog", p,
                       [requests |-> << [ method   |-> "DELETE",
                                          endpoint |-> << "/v1/lifelogs/", p.id >>,
                                          apiKey   |-> env.LIMITLESS_API_KEY ] >>],
                       IF status = 200
                       THEN ToolResult("Successfully deleted lifelog")
                       ELSE IF status = 404
                       THEN ToolError("Lifelog not found or already deleted.")
                       ELSE ToolError("Failed to delete lifelog: ${errorText}")) }
  /\ UNCHANGED << env, OAUTH_KV, uuids, inflight, RATE_LIMIT_KV >>

\* Number.prototype.toString() of an integer: its decimal digits.
RECURSIVE NatToString(_)
NatToString(n) ==
  IF n < 10 THEN << Digits[n + 1] >>
  ELSE NatToString(n \div 10) \o << Digits[(n % 10) + 1] >>

NumberToString(n) ==
  IF n < 0 THEN << "-" >> \o NatToString(-n) ELSE NatToString(n)

\* The GET of makeApiRequest: the parameters as they are appended to the
\* URL, and what the function returns or throws for the status of the answer.
ApiRequest(endpoint, params, apiKey) ==
  [ method |-> "GET", endpoint |-> endpoint, query |-> params, apiKey |-> apiKey ]

ApiResult(status) ==
  IF status = 200 THEN ToolResult("formattedResults")
  ELSE ToolResult("API request failed (${response.status})")

\* A limit that is sent as it was asked.
ActualLimitUnclamped(limit) ==
  IF limit = << >> THEN 10 ELSE limit[1]

\* ({ limit = 10 }) and Math.min(limit, MAX_RESULTS_LIMIT)
ActualLimit(limit) ==
  Min(IF limit = << >> THEN 10 ELSE limit[1], MAX_RESULTS_LIMIT)

\* timezone || getIanaTimeZoneIdentifier()
Tz(timezone) ==
  IF timezone = << >> \/ timezone = << "" >> THEN "UTC" ELSE timezone[1]

\* search_lifelogs, which exists when the agent was initialised with a key.
SearchLifelogs(p, status) ==
  /\ Cardinality(done) < MaxTool
  /\ env.LIMITLESS_API_KEY # ""
  /\ done' = done \cup
       { Finished("search_lifelogs", p,
                  [requests |-> << ApiRequest("/v1/lifelogs",
                                     [ search          |-> p.query,
                                       limit           |-> NumberToString(ActualLimit(p.limit)),
                                       timezone        |-> Tz(p.timezone),
                                       includeContents |-> "true",
                                       includeMarkdown |-> "true" ],
                                     env.LIMITLESS_API_KEY) >>],
                  ApiResult(status)) }
  /\ UNCHANGED << env, OAUTH_KV, uuids, inflight, RATE_LIMIT_KV >>

\* The optional parameters of list_recent_lifelogs that were given.
ListParams(p) ==
  LET base == [ limit           |-> NumberToString(ActualLimit(p.limit)),
                timezone        |-> Tz(p.timezone),
                direction       |-> "desc",
                includeContents |-> "true",
                includeMarkdown |-> "true" ]
      dated == IF p.date # << >> THEN Spread(base, [date |-> p.date[1]]) ELSE base
  IN  IF p.isStarred # << >>
      THEN Spread(dated, [isStarred |-> IF p.isStarred[1] THEN "true" ELSE "false"])
      ELSE dated

\* list_recent_lifelogs.
ListRecentLifelogs(p, status) ==
  /\ Cardinality(done) < MaxTool
  /\ env.LIMITLESS_API_KEY # ""
  /\ done' = done \cup
       { Finished("list_recent_lifelogs", p,
                  [requests |-> << ApiRequest("/v1/lifelogs", ListParams(p),
                                              env.LIMITLESS_API_KEY) >>],
                  ApiResult(status)) }
  /\ UNCHANGED << env, OAUTH_KV, uuids, inflight, RATE_LIMIT_KV >>

ToolInit ==
  /\ env \in ToolEnvs
  /\ OAUTH_KV = [key \in {} |-> Null]
  /\ uuids = 0
  /\ inflight = EmptyBag
  /\ done = {}
  /\ RATE_LIMIT_KV = Null

ToolNext ==
  \/ \E p \in DeleteLifelogInputs, status \in UpstreamStatuses : DeleteLifelog(p, status)
  \/ \E p \in SearchLifelogsInputs, status \in UpstreamStatuses : SearchLifelogs(p, status)
  \/ \E p \in ListRecentLifelogsInputs, status \in UpstreamStatuses : ListRecentLifelogs(p, status)

ToolSpec ==
  ToolInit /\ [][ToolNext]_vars

\* C27: a call of delete_lifelog sends one DELETE for the lifelog when an API
\* key is configured and confirm is true; in every other case it fails with
\* an error and sends no request upstream.
C27_DeleteRequiresConfirmation ==
  \A d \in Done("delete_lifelog") :
    IF env.LIMITLESS_API_KEY # "" /\ d.params.confirm
    THEN /\ Len(d.data.requests) = 1
         /\ d.data.requests[1].method = "DELETE"
         /\ d.data.requests[1].endpoint = << "/v1/lifelogs/", d.params.id >>
    ELSE /\ d.data.requests = << >>
         /\ d.resp.isError

\* With a key configured, a call without confirmation failed without a
\* request and a confirmed call sent the DELETE.
C27_Witness ==
  /\ env.LIMITLESS_API_KEY # ""
  /\ \E d1, d2 \in Done("delete_lifelog") :
       /\ ~d1.params.confirm
       /\ d1.resp.isError
       /\ d1.data.requests = << >>
       /\ d2.params.confirm
       /\ Len(d2.data.requests) = 1
       /\ ~d2.resp.isError

\* The number a decimal string of the query denotes.
RECURSIVE DecimalValue(_)
DecimalValue(s) ==
  IF s = << >> THEN 0
  ELSE 10 * DecimalValue(SubSeq(s, 1, Len(s) - 1)) + (IndexOf(Digits, s[Len(s)]) - 1)

SentLimit(request) ==
  LET s == request.query.limit
  IN  IF s[1] = "-" THEN 0 - DecimalValue(Tail(s)) ELSE DecimalValue(s)

\* C28: a call of search_lifelogs or list_recent_lifelogs (mcp-agent) sends
\* one request whose limit is the smaller of the limit asked and 100, and 10
\* when no limit was asked: it is never above 100.
C28_LimitClamped ==
  \A d \in Done("search_lifelogs") \cup Done("list_recent_lifelogs") :
    /\ Len(d.data.requests) = 1
    /\ LET sent == SentLimit(d.data.requests[1])
       IN  /\ sent <= 100
           /\ IF d.params.limit = << >>
              THEN sent = 10
              ELSE IF d.params.limit[1] <= 100
              THEN sent = d.params.limit[1]
              ELSE sent = 100

\* A search that asked for 1000 results sent limit=100, and a listing that
\* asked for no limit sent limit=10.
C28_Witness ==
  \E d1 \in Done("search_lifelogs"), d2 \in Done("list_recent_lifelogs") :
    /\ d1.params.limit = << 1000 >>
    /\ d1.data.requests[1].query.limit = << "1", "0", "0" >>
    /\ d2.params.limit = << >>
    /\ d2.data.requests[1].query.limit = << "1", "0" >>

InvalidRequest(description) ==
  JsonResponse(400, [error |-> "invalid_request", error_description |-> description])

\* The authorization codes in the store.
StoredCodes ==
  { key[2] : key \in { x \in DOMAIN OAUTH_KV : x[1] = "auth_code" } }

\* C29: POST /token looks at the grant type first, then at the presence of
\* code and code_verifier, then at the store.  A wrong grant type is answered
\* unsupported_grant_type also when the code or the verifier is missing; with
\* grant_type authorization_code a missing code or verifier is answered
\* invalid_request whatever the store holds, no such request ever reaches the
\* store, and a stored code named in it can still be redeemed.
C29_TokenValidationOrder ==
  /\ \A p \in TokenInputs :
       /\ p.grant_type # "authorization_code"
            => TokenRejection(p) = UnsupportedGrantType
       /\ (p.grant_type = "authorization_code"
             /\ (p.code = NoId \/ p.code_verifier = << >>))
            => TokenRejection(p) = InvalidRequest("Missing code or code_verifier")
  /\ \A r \in Invocations("token") :
       /\ r.params.grant_type = "authorization_code"
       /\ r.params.code # NoId
       /\ r.params.code_verifier # << >>
  /\ \A c \in StoredCodes, v \in CodeVerifiers :
       TokenRejection([ grant_type |-> "authorization_code", code |-> c,
                        code_verifier |-> v, client_id |-> "abc" ]) = Null

\* A code is in the store; the request that names it without a verifier is
\* answered invalid_request, the request with a wrong grant type and no code
\* is answered unsupported_grant_type, and the code is redeemed afterwards.
C29_Witness ==
  \E c \in AuthCodes :
    /\ TokenRejection([ grant_type |-> "authorization_code", code |-> c,
                        code_verifier |-> << >>, client_id |-> "abc" ])
         = InvalidRequest("Missing code or code_verifier")
    /\ TokenRejection([ grant_type |-> "refresh_token", code |-> NoId,
                        code_verifier |-> << >>, client_id |-> "abc" ])
         = UnsupportedGrantType
    /\ \E d \in TokenSuccesses : d.params.code = c

\* The identifiers of the sessions in the store.
StoredSessions ==
  { key[2] : key \in { x \in DOMAIN OAUTH_KV : x[1] = "github_state" } }

\* C30: GET /github/callback without a code or without a state is answered
\* 400 'Missing code or state' whatever the store holds, and with the
\* identifier of no stored session 400 'Invalid or expired session'; no such
\* request is among those that go on to delete or write a key, so a stored
\* session named without a code is not consumed and its callback with a code
\* is still accepted.
C30_FailedCallbackChangesNothing ==
  /\ \A p \in CallbackInputs :
       /\ (p.code = << >> \/ p.state = NoId)
            => CallbackRejection(p) = TextResponse(400, "Missing code or state")
       /\ (p.code # << >> /\ p.state # NoId /\ p.state \notin StoredSessions)
            => CallbackRejection(p) = TextResponse(400, "Invalid or expired session")
  /\ \A r \in Invocations("callback") :
       /\ r.params.code # << >>
       /\ r.params.state # NoId
       /\ r.data # Null
  /\ \A s \in StoredSessions, c \in ProviderCodes :
       CallbackRejection([code |-> c, state |-> s]) = Null

\* A session is in the store, its callback without a code is answered 400
\* while its callback with a code is still accepted, and the callback for an
\* unknown session is answered 400.
C30_Witness ==
  /\ \E s \in StoredSessions :
       /\ CallbackRejection([code |-> << >>, state |-> s])
            = TextResponse(400, "Missing code or state")
       /\ CallbackRejection([code |-> GH1, state |-> s]) = Null
  /\ CallbackRejection([code |-> GH1, state |-> BogusId])
       = TextResponse(400, "Invalid or expired session")

(***************************************************************************)
(* POST /token with every response recorded and with operations of the     *)
(* store that fail.  A request that the handler ends before it changes the *)
(* store is recorded with its response; a get, delete or put that fails    *)
(* throws instead of taking effect, and the catch of the handler answers.  *)
(* The session and the code come from one client that follows the flow.    *)
(***************************************************************************)
\* The token requests: each code handed out or made up, with the verifier of
\* the challenge, another verifier or none, under either grant type.
FaultTokenInputs ==
  [ grant_type    : GrantTypesSupported,
    code          : AuthCodes \cup { BogusId },
    code_verifier : CodeVerifiers \cup { << >> },
    client_id     : { AuthorizeBase.client_id } ]

\* What a finished invocation holds of an operation that threw: the
\* operation, and what the invocation had read before.
Thrown(op, data) ==
  [ thrown |-> op, authInfo |-> data ]

\* The handler ends the request before it changes the store.
TokenReject(p) ==
  /\ TokenRejection(p) # Null
  /\ Admitted("token") < MaxToken
  /\ done' = done \cup { Finished("token", p, Null, TokenRejection(p)) }
  /\ UNCHANGED << env, OAUTH_KV, uuids, inflight, RATE_LIMIT_KV >>

\* OAUTH_KV.get of the authorization code throws.
TokenGetThrows(p) ==
  /\ WellFormedToken(p)
  /\ Admitted("token") < MaxToken
  /\ done' = done \cup
       { Finished("token", p, Thrown("get", Null), TokenCatch(ThrownError)) }
  /\ UNCHANGED << env, OAUTH_KV, uuids, inflight, RATE_LIMIT_KV >>

\* OAUTH_KV.delete of the authorization code throws.
TokenDeleteThrows(r) ==
  /\ r \in At("token", "delete")
  /\ inflight' = Finish(r)
  /\ done' = done \cup
       { Finished("token", r.params, Thrown("delete", r.data), TokenCatch(ThrownError)) }
  /\ UNCHANGED << env, OAUTH_KV, uuids, RATE_LIMIT_KV >>

\* OAUTH_KV.put of the access token throws, after both tokens were generated.
TokenPutThrows(r) ==
  /\ r \in At("token", "put")
  /\ uuids' = uuids + 2
  /\ inflight' = Finish(r)
  /\ done' = done \cup
       { Finished("token", r.params, Thrown("put", r.data), TokenCatch(ThrownError)) }
  /\ UNCHANGED << env, OAUTH_KV, RATE_LIMIT_KV >>

FaultInit ==
  /\ env = RateEnv
  /\ OAUTH_KV = [key \in {} |-> Null]
  /\ uuids = 0
  /\ inflight = EmptyBag
  /\ done = {}
  /\ RATE_LIMIT_KV = Null

FaultNext ==
  \/ /\ \A r \in done : r.ep # "authorize"
     /\ AuthorizeFallback(AuthorizeBase)
  \/ \E p \in FlowCallbackInputs :
       /\ \A r \in InFlight \cup done : r.ep = "callback" => r.params.state # p.state
       /\ CallbackGet(p)
  \/ \E r \in InFlight : CallbackDelete(r)
  \/ \E r \in InFlight : CallbackPut(r)
  \/ \E p \in FaultTokenInputs : TokenReject(p)
  \/ \E p \in FaultTokenInputs : TokenGetThrows(p)
  \/ \E p \in FaultTokenInputs : TokenGet(p)
  \/ \E r \in InFlight : TokenDelete(r)
  \/ \E r \in InFlight : TokenDeleteThrows(r)
  \/ \E r \in InFlight : TokenPut(r)
  \/ \E r \in InFlight : TokenPutThrows(r)

FaultSpec ==
  FaultInit /\ [][FaultNext]_vars

\* The access-token records of the store.
AccessTokenRecords ==
  [ key \in { k \in DOMAIN OAUTH_KV : k[1] = "access_token" } |-> OAUTH_KV[key] ]

\* The /token invocations, waiting or finished.
TokenInvocations ==
  { r \in InFlight \cup done : r.ep = "token" }

\* A step of a /token invocation in which no request is answered 200 leaves
\* the access-token records as they are and changes the store at most by
\* deleting the authorization code that the invocation presented.
TokenFailureStep ==
  ( /\ TokenInvocations' # TokenInvocations
    /\ TokenSuccesses' = TokenSuccesses )
  => /\ AccessTokenRecords' = AccessTokenRecords
     /\ \E r \in (TokenInvocations' \ TokenInvocations) \cup (TokenInvocations \ TokenInvocations') :
          OAUTH_KV' \in { OAUTH_KV, KVDelete(OAUTH_KV, << "auth_code", r.params.code >>) }

\* C31: a POST /token request that is not answered 200 (unsupported grant
\* type, missing code or verifier, unknown code, verifier mismatch, server
\* error) creates, changes and removes no access-token record, and the only
\* change it makes to the store is the delete of the authorization code it
\* presented; the requests refused before the lookup is done change nothing.
C31_FailedTokenRequestFrame ==
  [][ /\ TokenFailureStep
      /\ \A d \in Done("token")' \ Done("token") :
           ( /\ d.resp.status # 200
             /\ d.resp # InvalidGrant("Invalid code verifier") )
           => OAUTH_KV' = OAUTH_KV
    ]_vars

\* A request with the wrong verifier was answered invalid_grant: its code is
\* gone and the store holds no access token; a request with an unsupported
\* grant type was refused as well.
C31_Witness ==
  /\ \E d \in Done("token") :
       /\ d.resp = InvalidGrant("Invalid code verifier")
       /\ d.params.code \in AuthCodes
       /\ << "auth_code", d.params.code >> \notin DOMAIN OAUTH_KV
  /\ \E d \in Done("token") : d.resp = JsonResponse(400, [error |-> "unsupported_grant_type"])
  /\ DOMAIN AccessTokenRecords = {}

\* The /token invocations in which the given operation of the store threw.
ThrownDone(op) ==
  { d \in Done("token") : "thrown" \in DOMAIN d.data /\ d.data.thrown = op }

\* C32: a POST /token request in which an operation of the store fails is
\* answered 500 server_error, never 200, and stores no access token; every
\* access token in the store was returned in a 200.  When the put of the
\* access token fails, the code it presented has been deleted and stays
\* deleted, so every later token request with that code is refused.
C32_StoreFailureInToken ==
  /\ []( /\ \A op \in { "get", "delete", "put" } : \A d \in ThrownDone(op) :
              d.resp = JsonResponse(500, [ error |-> "server_error" ])
         /\ \A key \in DOMAIN AccessTokenRecords :
              \E d \in TokenSuccesses : d.resp.json.access_token = key[2]
         /\ \A d \in ThrownDone("put") :
              /\ << "auth_code", d.params.code >> \notin DOMAIN OAUTH_KV
              /\ \A p \in TokenInputs :
                   p.code = d.params.code => TokenRejection(p) # Null )
  /\ [][ \A op \in { "get", "delete", "put" } :
           ThrownDone(op)' # ThrownDone(op) => OAUTH_KV' = OAUTH_KV ]_vars

\* The put of the access token failed in a request with the right verifier:
\* the request was answered 500, its code is gone and the store holds no
\* access token.
C32_Witness ==
  \E d \in ThrownDone("put") :
    /\ d.params.code_verifier = V1
    /\ d.resp.status = 500
    /\ << "auth_code", d.params.code >> \notin DOMAIN OAUTH_KV
    /\ DOMAIN AccessTokenRecords = {}

\* The /sse invocations, waiting or finished.
SseInvocations ==
  { r \in InFlight \cup done : r.ep = "sse" }

\* C33: the gate of /sse only reads OAUTH_KV: no step of a protected
\* request, forwarded or refused, writes or deletes a session, a code, an
\* access token or a registration; and as long as the record of an access
\* token is in the store, every presentation of the token as a Bearer
\* credential passes the bearer validation with the identity of the record.
C33_BearerValidationReadOnly ==
  /\ [][ SseInvocations' # SseInvocations => OAUTH_KV' = OAUTH_KV ]_vars
  /\ []( \A key \in DOMAIN AccessTokenRecords :
           BearerValidation(OAUTH_KV, << "Bearer", key[2] >>)
             = Forwarded([ authenticated |-> TRUE,
                           user_id       |-> OAUTH_KV[key].user_id,
                           client_id     |-> OAUTH_KV[key].client_id ]) )

\* One access token was presented in two requests and forwarded both times,
\* and the record of the token is still in the store.
C33_Witness ==
  \E d1, d2 \in Done("sse") :
    /\ d1 # d2
    /\ d1.params.authorization = d2.params.authorization
    /\ d1.resp.status = 0 /\ d2.resp.status = 0
    /\ << "access_token", d1.params.authorization[2] >> \in DOMAIN OAUTH_KV

\* C34: in every reachable state, each authorization code in the store has
\* the client_id, redirect_uri and code_challenge of the session that the
\* callback which minted it had read, and these are the parameters of the
\* /authorize request that created that session; each access token in the
\* store has the client_id and user_id of the authorization code that the
\* token request which issued it had read, and these are the ones the
\* callback stored, whatever client_id was submitted to /token.
C34_BindingCarriedThrough ==
  /\ \A key \in DOMAIN OAUTH_KV :
       key[1] = "auth_code"
         => \E m \in CallbackMints : \E a \in Done("authorize") :
              /\ m.resp.location.code = key[2]
              /\ a.resp.status = 302
              /\ a.resp.location.state = m.params.state
              /\ \A f \in { "client_id", "redirect_uri", "code_challenge" } :
                   /\ OAUTH_KV[key][f] = m.data.oauth_params[f]
                   /\ OAUTH_KV[key][f] = a.params[f]
  /\ \A key \in DOMAIN OAUTH_KV :
       key[1] = "access_token"
         => \E d \in TokenSuccesses : \E m \in CallbackMints :
              /\ d.resp.json.access_token = key[2]
              /\ m.resp.location.code = d.params.code
              /\ OAUTH_KV[key].client_id = d.data.client_id
              /\ OAUTH_KV[key].user_id = d.data.user_id
              /\ OAUTH_KV[key].client_id = m.data.oauth_params.client_id
              /\ OAUTH_KV[key].user_id = UserId(m.params.code)

\* A code bound to the challenge of the request is in the store, and so is
\* an access token that was issued to a request which submitted another
\* client_id than the one of the code: the token has the client_id of the
\* code.
C34_Witness ==
  /\ \E key \in DOMAIN OAUTH_KV :
       /\ key[1] = "auth_code"
       /\ OAUTH_KV[key].code_challenge = CH1
       /\ OAUTH_KV[key].client_id = "abc"
  /\ \E d \in TokenSuccesses :
       /\ d.params.client_id = "evil"
       /\ << "access_token", d.resp.json.access_token >> \in DOMAIN OAUTH_KV
       /\ OAUTH_KV[<< "access_token", d.resp.json.access_token >>].client_id = "abc"

(***************************************************************************)
(* The whole worker (default.fetch and authorizationHandler.fetch) for one *)
(* client: registration, discovery, the flow on the fallback path and      *)
(* requests to /sse, in a deployment without origin guard and without rate *)
(* limiter.  The client asks for authorization under a client id that was  *)
(* never registered or under the one that /register assigned; a callback  *)
(* or a token request may be sent again.                                   *)
(***************************************************************************)
\* The text of an identifier as a client writes it in a query parameter.
IdText(id) ==
  ToString(id)

\* The client ids that /register has assigned, as text.
RegisteredClientIds ==
  { IdText(d.data.clientId) : d \in Done("register") }

ServerAuthorizeInputs ==
  { [AuthorizeBase EXCEPT !.client_id = c] :
      c \in { AuthorizeBase.client_id } \cup RegisteredClientIds }

\* The client id of the flow: the one of the /authorize request.
ServerTokenInputs ==
  { [ grant_type    |-> "authorization_code",
      code          |-> c,
      code_verifier |-> V1,
      client_id     |-> a.params.client_id ] : c \in AuthCodes, a \in Done("authorize") }

ServerSseInputs ==
  [ ip            : { "203.0.113.7" },
    authorization : { << >> } \cup { << "Bearer", t >> : t \in AccessTokens \cup { BogusId } } ]

ServerRegisterInputs ==
  { [client_name |-> "app"],
    [client_name |-> "app", redirect_uris |-> << "https://client.example/cb" >>] }

\* GET /.well-known/oauth-authorization-server: the metadata document, with
\* the endpoints relative to the origin.
Discovery ==
  /\ done' = done \cup
       { Finished("discovery", Null, Null,
                  JsonResponse(200,
                    [ issuer                                |-> "",
                      authorization_endpoint                |-> "/authorize",
                      token_endpoint                        |-> "/token",
                      registration_endpoint                 |-> "/register",
                      scopes_supported                      |-> { "mcp" },
                      response_types_supported              |-> { "code" },
                      grant_types_supported                 |-> GrantTypesSupported,
                      code_challenge_methods_supported      |-> { "S256" },
                      token_endpoint_auth_methods_supported |-> { "none" } ])) }
  /\ UNCHANGED << env, OAUTH_KV, uuids, inflight, RATE_LIMIT_KV >>

ServerInit ==
  /\ env = RateEnv
  /\ OAUTH_KV = [key \in {} |-> Null]
  /\ uuids = 0
  /\ inflight = EmptyBag
  /\ done = {}
  /\ RATE_LIMIT_KV = Null

ServerNext ==
  \/ \E body \in ServerRegisterInputs :
       /\ Done("register") = {}
       /\ Register(body)
  \/ Discovery
  \/ \E p \in ServerAuthorizeInputs :
       /\ \A r \in done : r.ep # "authorize"
       /\ AuthorizeFallback(p)
  \/ \E p \in FlowCallbackInputs : CallbackGet(p)
  \/ \E r \in InFlight : CallbackDelete(r)
  \/ \E r \in InFlight : CallbackPut(r)
  \/ \E p \in ServerTokenInputs : TokenGet(p)
  \/ \E r \in InFlight : TokenDelete(r)
  \/ \E r \in InFlight : TokenPut(r)
  \/ \E request \in ServerSseInputs :
       /\ Admitted("sse") < MaxSse
       /\ SseStart(request)

ServerSpec ==
  ServerInit /\ [][ServerNext]_vars

\* The keys of a store with the given prefix.
KeysOf(kv, prefix) ==
  { key \in DOMAIN kv : key[1] = prefix }

\* The keys with the given prefix that a step adds to OAUTH_KV.
NewKeys(prefix) ==
  KeysOf(OAUTH_KV', prefix) \ KeysOf(OAUTH_KV, prefix)

\* C35: a step creates a session only by answering a /authorize request that
\* has response_type, client_id and redirect_uri; it creates an authorization
\* code only in a callback that had looked up a session which such a request
\* created; it creates an access token only in a token request that had looked
\* up an authorization code which a callback created; and no step of
\* /register, of the discovery document or of a request to /sse creates a
\* session, a code or a token.
C35_CausalOrder ==
  [][ /\ \A key \in NewKeys("github_state") :
           \E a \in Done("authorize")' \ Done("authorize") :
             /\ a.resp.status = 302
             /\ a.resp.location.state = key[2]
             /\ a.params.response_type # ""
             /\ a.params.client_id # ""
             /\ a.params.redirect_uri # ""
      /\ \A key \in NewKeys("auth_code") :
           \E r \in At("callback", "put") :
             /\ \E m \in Done("callback")' \ Done("callback") :
                  m.params = r.params /\ m.resp.location.code = key[2]
             /\ \E a \in Done("authorize") :
                  /\ a.resp.status = 302
                  /\ a.resp.location.state = r.params.state
                  /\ r.data.oauth_params = a.params
      /\ \A key \in NewKeys("access_token") :
           \E r \in At("token", "put") :
             /\ \E d \in Done("token")' \ Done("token") :
                  d.params = r.params /\ d.resp.json.access_token = key[2]
             /\ \E m \in CallbackMints :
                  /\ m.resp.location.code = r.params.code
                  /\ r.data = AuthCodeRecord(m.data.oauth_params, m.params.code)
      /\ ( \/ Done("register")' # Done("register")
           \/ Done("discovery")' # Done("discovery")
           \/ SseInvocations' # SseInvocations )
         => \A prefix \in { "github_state", "auth_code", "access_token" } :
              NewKeys(prefix) = {}
    ]_vars

\* The flow has run to an access token that is in the store, after a
\* registration, a request for the discovery document and a request to /sse
\* that was answered 401.
C35_Witness ==
  /\ \E d \in TokenSuccesses :
       << "access_token", d.resp.json.access_token >> \in DOMAIN OAUTH_KV
  /\ Done("register") # {}
  /\ Done("discovery") # {}
  /\ \E d \in Done("sse") : d.resp.status = 401

\* The registrations in the store.
ClientRegistrations ==
  [ key \in KeysOf(OAUTH_KV, "client") |-> OAUTH_KV[key] ]

\* The /sse requests that were forwarded with the given client id.
ForwardedFor(clientId) ==
  { d \in Done("sse") : d.resp.status = 0 /\ d.resp.props.client_id = clientId }

\* C36: the registrations play no part in the flow.  Whether or not the
\* client id of the flow was assigned by /register, and whatever
\* registrations are in the store, a /authorize request with response_type,
\* client_id and redirect_uri is accepted, a callback for a session in the
\* store and a token request for a code in the store go on, every finished
\* step of the flow succeeded, and a request to /sse with a stored access
\* token is forwarded with the client id of the flow; only /register changes
\* the registrations.
C36_RegistrationNeverConsulted ==
  /\ []( /\ \A c \in { AuthorizeBase.client_id, IdText(BogusId) } \cup RegisteredClientIds :
              AuthorizeFallbackRejection([AuthorizeBase EXCEPT !.client_id = c]) = Null
         /\ \A d \in Done("authorize") \cup Done("callback") : d.resp.status = 302
         /\ \A p \in FlowCallbackInputs :
              << "github_state", p.state >> \in DOMAIN OAUTH_KV => CallbackRejection(p) = Null
         /\ \A p \in ServerTokenInputs :
              << "auth_code", p.code >> \in DOMAIN OAUTH_KV => TokenRejection(p) = Null
         /\ \A d \in Done("token") : d.resp.status = 200
         /\ \A key \in DOMAIN AccessTokenRecords : \E a \in Done("authorize") :
              BearerValidation(OAUTH_KV, << "Bearer", key[2] >>)
                = Forwarded([ authenticated |-> TRUE,
                              user_id       |-> UserId(GH1),
                              client_id     |-> a.params.client_id ]) )
  /\ [][ Done("register")' = Done("register")
           => ClientRegistrations' = ClientRegistrations ]_vars

\* A client id that /register never assigned went through the whole flow
\* while the registration of another client was in the store: a request to
\* /sse with its access token was forwarded with that client id.
C36_Witness ==
  /\ AuthorizeBase.client_id \notin RegisteredClientIds
  /\ DOMAIN ClientRegistrations # {}
  /\ ForwardedFor(AuthorizeBase.client_id) # {}

\* The same for the client id that /register assigned.
C36_WitnessRegistered ==
  \E c \in RegisteredClientIds : ForwardedFor(c) # {}

(***************************************************************************)
(* The identity reference.  One session, callbacks for it with provider    *)
(* codes of which two differ only after their eighth character and one is  *)
(* shorter than eight characters, the exchange of each code, and requests  *)
(* to /sse with the access tokens.                                         *)
(***************************************************************************)
\* A provider code with the first eight characters of GH1.
GH2 ==
  << "g", "h", "c", "o", "d", "e", "0", "0", "2" >>

IdentityCallbackInputs ==
  [ code : { GH1, GH2, FORGED }, state : SessionIds ]

IdentitySseInputs ==
  [ ip            : { "203.0.113.7" },
    authorization : { << "Bearer", t >> : t \in AccessTokens } ]

IdentityNext ==
  \/ /\ \A r \in done : r.ep # "authorize"
     /\ AuthorizeFallback(AuthorizeBase)
  \/ \E p \in IdentityCallbackInputs : CallbackGet(p)
  \/ \E r \in InFlight : CallbackDelete(r)
  \/ \E r \in InFlight : CallbackPut(r)
  \/ \E p \in FlowTokenInputs :
       /\ \A r \in InFlight \cup done : r.ep = "token" => r.params.code # p.code
       /\ TokenGet(p)
  \/ \E r \in InFlight : TokenDelete(r)
  \/ \E r \in InFlight : TokenPut(r)
  \/ \E request \in IdentitySseInputs :
       /\ Admitted("sse") < MaxSse
       /\ SseStart(request)

IdentitySpec ==
  ServerInit /\ [][IdentityNext]_vars

\* The first eight characters of a provider code, or all of it when it is
\* shorter.
FirstEight(code) ==
  [ i \in 1..(IF Len(code) < 8 THEN Len(code) ELSE 8) |-> code[i] ]

\* The identity reference that belongs to a provider code.
IdentityOf(code) ==
  << "github_user_" >> \o FirstEight(code)

\* The provider code behind an authorization code: the one of the callback
\* that minted it.
ProviderCodeOf(authCode) ==
  (CHOOSE m \in CallbackMints : m.resp.location.code = authCode).params.code

\* C37: the identity reference is github_user_ followed by the first eight
\* characters of the provider code of the callback, and by nothing else: it is
\* what is stored with the authorization code, what is copied into the
\* access token and what the gate attaches to a forwarded request; so two
\* provider codes with the same first eight characters give the same identity
\* reference.
C37_IdentityFromProviderCode ==
  /\ \A key \in KeysOf(OAUTH_KV, "auth_code") :
       OAUTH_KV[key].user_id = IdentityOf(ProviderCodeOf(key[2]))
  /\ \A d \in TokenSuccesses :
       /\ d.data.user_id = IdentityOf(ProviderCodeOf(d.params.code))
       /\ << "access_token", d.resp.json.access_token >> \in DOMAIN OAUTH_KV
       /\ OAUTH_KV[<< "access_token", d.resp.json.access_token >>].user_id
            = IdentityOf(ProviderCodeOf(d.params.code))
  /\ \A s \in Done("sse") : \E d \in TokenSuccesses :
       /\ s.params.authorization = << "Bearer", d.resp.json.access_token >>
       /\ s.resp.status = 0
       /\ s.resp.props.user_id = IdentityOf(ProviderCodeOf(d.params.code))
  /\ \A d1, d2 \in TokenSuccesses :
       FirstEight(ProviderCodeOf(d1.params.code)) = FirstEight(ProviderCodeOf(d2.params.code))
         => d1.data.user_id = d2.data.user_id

\* Two callbacks with different provider codes that share their first eight
\* characters led to two access tokens, and requests to /sse with either
\* token were forwarded with the same identity reference.
C37_Witness ==
  \E d1, d2 \in TokenSuccesses : \E s1, s2 \in Done("sse") :
    /\ ProviderCodeOf(d1.params.code) = GH1
    /\ ProviderCodeOf(d2.params.code) = GH2
    /\ s1.params.authorization = << "Bearer", d1.resp.json.access_token >>
    /\ s2.params.authorization = << "Bearer", d2.resp.json.access_token >>
    /\ s1.resp.status = 0 /\ s2.resp.status = 0
    /\ s1.resp.props.user_id = s2.resp.props.user_id

(***************************************************************************)
(* GET /github-auth of index.ts (defaultHandler.fetch): the cooldown       *)
(* between two redirects to GitHub for one address.  The requests arrive   *)
(* one after the other.  Time is in milliseconds: Date.now() is an input   *)
(* of the handler that never decreases, and a key put with an              *)
(* expirationTtl is returned by a get until that many seconds have passed. *)
(***************************************************************************)
\* The number of requests to /github-auth.
MaxGithubAuth ==
  3

\* A request: the CF-Connecting-IP header (absent or an address), the token
\* that the pattern github_token=([^;]+) finds in the Cookie header (absent
\* or a token) and the query.
GithubAuthInputs ==
  [ ip          : { << >>, << "203.0.113.7" >> },
    githubToken : { << >>, << "auth_ghcode00_1" >> },
    query       : { [ client_id |-> "abc", state |-> "xyz" ] } ]

\* What Date.now() can have advanced by between the end of a request and
\* the next request, and between two calls within one request.
Elapsed ==
  { 0, 1, 29999, 30000, 60000 }

ElapsedWithin ==
  { 0, 1 }

\* The time of the latest call of Date.now().
Clock ==
  LET times == { d.data.now : d \in Done("github-auth") }
  IN  IF times = {} THEN 0 ELSE CHOOSE t \in times : \A u \in times : u <= t

\* put(key, value, { expirationTtl: ttl }) at the time now.
KVPutTtl(kv, key, value, now, ttl) ==
  KVPut(kv, key, [ value |-> value, expiration |-> now + ttl * 1000 ])

\* Whether a get at the time now finds the key.
KVHasAt(kv, key, now) ==
  key \in DOMAIN kv /\ now < kv[key].expiration

\* request.headers.get('CF-Connecting-IP') || 'unknown'
ClientIp(request) ==
  IF request.ip = << >> THEN "unknown" ELSE request.ip[1]

\* Math.ceil(n / 1000) for n > 0.
CeilSeconds(n) ==
  (n + 999) \div 1000

\* The page of the 429: the seconds left are interpolated in it.
PleaseWait(timeSinceLastAttempt) ==
  TemplateResponse(429, "Please Wait ... ${Math.ceil((30000 - timeSinceLastAttempt) / 1000)} seconds",
                   << CeilSeconds(30000 - timeSinceLastAttempt) >>)

\* The Location of the redirect to GitHub of index.ts.
GithubAuthRedirect(sessionId) ==
  [ url          |-> GITHUB_AUTH_URL,
    client_id    |-> env.GITHUB_CLIENT_ID,
    redirect_uri |-> "/github/callback",
    scope        |-> "read:user",
    state        |-> sessionId ]

\* A cooldown that restarts with every refused attempt.
GithubAuthRefusalRefreshes(request, t1, t2) ==
  /\ IF request.githubToken # << >>
     THEN /\ done' = done \cup
               { Finished("github-auth", request, [ checked |-> t1, now |-> t1 ],
                          TextResponse(200, "Authorize Limitless MCP")) }
          /\ UNCHANGED << OAUTH_KV, uuids >>
     ELSE LET rateLimitKey == << "ratelimit", ClientIp(request) >>
              found        == KVHasAt(OAUTH_KV, rateLimitKey, t1)
              lastAttempt  == IF found THEN OAUTH_KV[rateLimitKey].value ELSE << >>
              timeSinceLastAttempt == t1 - DecimalValue(lastAttempt)
          IN  IF found /\ lastAttempt # << >> /\ timeSinceLastAttempt < 30000
              THEN /\ OAUTH_KV' = KVPutTtl(OAUTH_KV, rateLimitKey, NumberToString(t1), t1, 60)
                   /\ done' = done \cup
                        { Finished("github-auth", request, [ checked |-> t1, now |-> t1 ],
                                   PleaseWait(timeSinceLastAttempt)) }
                   /\ UNCHANGED uuids
              ELSE LET sessionId == uuids + 1
                   IN  /\ uuids' = sessionId
                       /\ OAUTH_KV' =
                            KVPutTtl(KVPutTtl(OAUTH_KV, rateLimitKey, NumberToString(t2), t2, 60),
                                     << "github_session", sessionId >>,
                                     [ mcp_params |-> request.query ], t2, 3600)
                       /\ done' = done \cup
                            { Finished("github-auth", request, [ checked |-> t1, now |-> t2 ],
                                       Redirect(GithubAuthRedirect(sessionId))) }
  /\ UNCHANGED << env, inflight, RATE_LIMIT_KV >>

\* The handler for a request that arrives when Date.now() is t1 and that, if
\* it is admitted, records the attempt when Date.now() is t2.
GithubAuth(request, t1, t2) ==
  /\ IF request.githubToken # << >>
     THEN /\ done' = done \cup
               { Finished("github-auth", request, [ checked |-> t1, now |-> t1 ],
                          TextResponse(200, "Authorize Limitless MCP")) }
          /\ UNCHANGED << OAUTH_KV, uuids >>
     ELSE LET rateLimitKey == << "ratelimit", ClientIp(request) >>
              found        == KVHasAt(OAUTH_KV, rateLimitKey, t1)
              lastAttempt  == IF found THEN OAUTH_KV[rateLimitKey].value ELSE << >>
              timeSinceLastAttempt == t1 - DecimalValue(lastAttempt)
          IN  IF found /\ lastAttempt # << >> /\ timeSinceLastAttempt < 30000
              THEN /\ done' = done \cup
                        { Finished("github-auth", request, [ checked |-> t1, now |-> t1 ],
                                   PleaseWait(timeSinceLastAttempt)) }
                   /\ UNCHANGED << OAUTH_KV, uuids >>
              ELSE LET sessionId == uuids + 1
                   IN  /\ uuids' = sessionId
                       /\ OAUTH_KV' =
                            KVPutTtl(KVPutTtl(OAUTH_KV, rateLimitKey, NumberToString(t2), t2, 60),
                                     << "github_session", sessionId >>,
                                     [ mcp_params |-> request.query ], t2, 3600)
                       /\ done' = done \cup
                            { Finished("github-auth", request, [ checked |-> t1, now |-> t2 ],
                                       Redirect(GithubAuthRedirect(sessionId))) }
  /\ UNCHANGED << env, inflight, RATE_LIMIT_KV >>

CooldownInit ==
  /\ env = RateEnv
  /\ OAUTH_KV = [key \in {} |-> Null]
  /\ uuids = 0
  /\ inflight = EmptyBag
  /\ done = {}
  /\ RATE_LIMIT_KV = Null

CooldownNext ==
  \E request \in GithubAuthInputs, e \in Elapsed, w \in ElapsedWithin :
    /\ Cardinality(Done("github-auth")) < MaxGithubAuth
    /\ GithubAuth(request, Clock + e, Clock + e + w)

CooldownSpec ==
  CooldownInit /\ [][CooldownNext]_vars

\* The requests without a token in the cookie that came from an address, and
\* those of them that were redirected to GitHub.
Attempts(ip) ==
  { d \in Done("github-auth") : d.params.githubToken = << >> /\ ClientIp(d.params) = ip }

AdmittedAttempts(ip) ==
  { d \in Attempts(ip) : d.resp.status = 302 }

\* The addresses under which attempts are recorded.
CooldownIps ==
  { ClientIp(request) : request \in GithubAuthInputs }

\* The step that answers a request without a token in the cookie: when the
\* attempt recorded for its address is less than 30 seconds old the answer is
\* 429 and the store stays as it is; otherwise the answer is a 302 to GitHub,
\* the time is recorded for the address with a TTL of 60 seconds and exactly
\* one session is created, the one named in the redirect.
CooldownStep ==
  \A d \in Done("github-auth")' \ Done("github-auth") :
    d.params.githubToken = << >>
    => LET key == << "ratelimit", ClientIp(d.params) >>
       IN  IF /\ KVHasAt(OAUTH_KV, key, d.data.checked)
              /\ d.data.checked - DecimalValue(OAUTH_KV[key].value) < 30000
           THEN /\ d.resp.status = 429
                /\ OAUTH_KV' = OAUTH_KV
                /\ uuids' = uuids
           ELSE /\ d.resp.status = 302
                /\ d.resp.location.url = GITHUB_AUTH_URL
                /\ NewKeys("github_session") = { << "github_session", d.resp.location.state >> }
                /\ DecimalValue(OAUTH_KV'[key].value) = d.data.now
                /\ OAUTH_KV'[key].expiration = d.data.now + 60000
                /\ \A k \in DOMAIN OAUTH_KV \ { key } : OAUTH_KV'[k] = OAUTH_KV[k]

\* C38: with requests to /github-auth arriving one after the other, a request
\* without a github_token cookie from an address whose recorded attempt is
\* less than 30 seconds old is answered 429, creates no session and leaves
\* the recorded time as it is; any other such request records the time of the
\* attempt with a TTL of 60 seconds, creates exactly one github_session and
\* is redirected to GitHub; so two attempts of one address that were
\* redirected are recorded at least 30 seconds apart, and there are as many
\* sessions as redirects.
C38_GithubAuthCooldown ==
  /\ []( /\ \A ip \in CooldownIps : \A d1, d2 \in AdmittedAttempts(ip) :
              d1 # d2 => \/ d1.data.now - d2.data.now >= 30000
                         \/ d2.data.now - d1.data.now >= 30000
         /\ Cardinality(KeysOf(OAUTH_KV, "github_session"))
              = Cardinality(UNION { AdmittedAttempts(ip) : ip \in CooldownIps }) )
  /\ [][CooldownStep]_vars

\* An address was redirected, was refused less than 30 seconds later, and was
\* redirected again less than 30 seconds after the refusal, 30 seconds after
\* the first redirect: the refusal had not restarted the cooldown.
C38_Witness ==
  \E ip \in CooldownIps : \E a1, a2 \in AdmittedAttempts(ip) : \E r \in Attempts(ip) :
    /\ r.resp.status = 429
    /\ a1.data.now <= r.data.checked
    /\ r.data.checked - a1.data.now < 30000
    /\ r.data.checked <= a2.data.checked
    /\ a2.data.checked - r.data.checked < 30000
    /\ a2.data.checked - a1.data.now >= 30000
    /\ Cardinality(KeysOf(OAUTH_KV, "github_session")) = 2

=============================================================================
